---- MODULE Spec2Model ----
(***************************************************************************)
(* homeddns: DynDNS bridge.  Model of the session-managed netcup CCP       *)
(* client (NetcupClient) together with the fake netcup backend its tests   *)
(* use, and of the pure helper extractSubdomain.                           *)
(*                                                                         *)
(* Strings that the code transforms (hostnames, domains, subdomains) are   *)
(* sequences of one-character strings, so that ToLower, HasSuffix and      *)
(* TrimSuffix are computed character by character.  Strings that the code  *)
(* only compares or copies (record types, destinations, ids, session ids)  *)
(* are TLA+ strings.                                                       *)
(***************************************************************************)
EXTENDS Naturals, Sequences, FiniteSets, TLC

(***************************************************************************)
(* Bounds of the model.                                                    *)
(***************************************************************************)
\* number of request goroutines that may run concurrently
NumTasks == 2
\* total number of provider calls started in one behaviour
MaxCalls == 2
\* last clock tick (one tick is SessionRefreshTime, 10 minutes)
MaxTime == 3
\* longest record list the backend starts with in the sequential scenarios
MaxRecs == 2
\* longest prefix / domain string fed to extractSubdomain
MaxLen == 3

(***************************************************************************)
(* Program constants.                                                      *)
(***************************************************************************)
\* SessionRefreshTime = 10 * time.Minute, in clock ticks of 10 minutes
SessionRefreshTime == 1
\* TTL: 60 reported by GetRecord
DefaultTTL == 60
\* context.WithTimeout(context.Background(), 30*time.Second), in clock ticks
ShutdownTimeout == 3
\* the longest time, in clock ticks, the requests in flight still need
MaxWork == 4

Tasks == 1..NumTasks

(***************************************************************************)
(* strings package, on sequences of characters.                            *)
(***************************************************************************)
\* unicode.ToLower on the letters of the model's alphabet
LowerChar(c) ==
    CASE c = "A" -> "a"
      [] c = "B" -> "b"
      [] c = "W" -> "w"
      [] OTHER -> c

ToLower(s) == [i \in 1..Len(s) |-> LowerChar(s[i])]

HasSuffix(s, suffix) ==
    /\ Len(s) >= Len(suffix)
    /\ SubSeq(s, Len(s) - Len(suffix) + 1, Len(s)) = suffix

TrimSuffix(s, suffix) ==
    IF HasSuffix(s, suffix) THEN SubSeq(s, 1, Len(s) - Len(suffix)) ELSE s

\* the mutant of extractSubdomain: the apex is not recognised
extractSubdomainNoApex(hostname, domain) ==
    LET h == ToLower(hostname)
        d == ToLower(domain)
        suffix == <<".">> \o d
    IN  IF HasSuffix(h, suffix) THEN TrimSuffix(h, suffix) ELSE h

\* NetcupClient.extractSubdomain
extractSubdomain(hostname, domain) ==
    LET h == ToLower(hostname)
        d == ToLower(domain)
        suffix == <<".">> \o d
    IN  IF h = d
        THEN <<"@">>
        ELSE IF HasSuffix(h, suffix) THEN TrimSuffix(h, suffix) ELSE h

(***************************************************************************)
(* Data of the netcup client and of the fake backend.                      *)
(***************************************************************************)
\* the one domain the calls are made for: "d.io"
Domain == <<"d", ".", "i", "o">>
\* record.Name / hostname arguments: "w.d.io" and the apex "d.io"
Hostnames == {<<"w", ".", "d", ".", "i", "o">>, Domain}
\* record types the calls ask for
CallTypes == {"A"}
\* record values the calls ask for
Values == {"1.1.1.1", "2.2.2.2"}

\* netcupDNSRecord (the fields the client reads or sets)
NetcupRecord(id, hostname, type, destination) ==
    [ID |-> id, Hostname |-> hostname, Type |-> type, Destination |-> destination]

\* what a record of a backend list may hold in the sequential scenarios:
\* <<hostname, type, destination>>
RecordPool ==
    { <<<<"w">>, "A", "1.1.1.1">>, <<<<"w">>, "A", "2.2.2.2">>,
      <<<<"w">>, "AAAA", "1.1.1.1">>, <<<<"@">>, "A", "2.2.2.2">> }

\* the records of newMockNetcupAPIServer
MockRecords ==
    << NetcupRecord("1", <<"@">>, "A", "1.1.1.1"),
       NetcupRecord("2", <<"w">>, "A", "1.1.1.1"),
       NetcupRecord("3", <<"*">>, "A", "1.1.1.1") >>

\* the session id the backend hands out for its n-th successful login
SidOf(n) == "sid" \o ToString(n)

\* the actions of the netcup API
Actions == {"login", "infoDnsRecords", "updateDnsRecords", "logout"}

(***************************************************************************)
(* The record matching of GetRecord and UpdateRecord.                      *)
(***************************************************************************)
\* the condition of both loops: record.Hostname == subdomain && record.Type == recordType
Matches(r, subdomain, recordType) ==
    r.Hostname = subdomain /\ r.Type = recordType

\* the mutant of FindRecord: only the hostname is compared
RECURSIVE FindRecordAnyType(_, _, _, _)
FindRecordAnyType(recs, i, subdomain, recordType) ==
    IF i > Len(recs) THEN <<>>
    ELSE IF recs[i].Hostname = subdomain THEN <<recs[i]>>
    ELSE FindRecordAnyType(recs, i + 1, subdomain, recordType)

\* GetRecord's loop: the first matching record, as a list of at most one
RECURSIVE FindRecord(_, _, _, _)
FindRecord(recs, i, subdomain, recordType) ==
    IF i > Len(recs) THEN <<>>
    ELSE IF Matches(recs[i], subdomain, recordType) THEN <<recs[i]>>
    ELSE FindRecord(recs, i + 1, subdomain, recordType)

\* the mutant of PartitionRecords: the loop stops at the first match (a break)
RECURSIVE PartitionRecordsBreak(_, _, _, _, _, _)
PartitionRecordsBreak(recs, i, subdomain, recordType, existing, others) ==
    IF i > Len(recs) THEN [existing |-> existing, others |-> others]
    ELSE IF Matches(recs[i], subdomain, recordType)
         THEN [existing |-> <<recs[i]>>, others |-> others]
         ELSE PartitionRecordsBreak(recs, i + 1, subdomain, recordType,
                                    existing, Append(others, recs[i]))

\* UpdateRecord's loop: existingRecord (nil or the last match) and otherRecords
RECURSIVE PartitionRecords(_, _, _, _, _, _)
PartitionRecords(recs, i, subdomain, recordType, existing, others) ==
    IF i > Len(recs) THEN [existing |-> existing, others |-> others]
    ELSE IF Matches(recs[i], subdomain, recordType)
         THEN PartitionRecords(recs, i + 1, subdomain, recordType,
                               <<recs[i]>>, others)
         ELSE PartitionRecords(recs, i + 1, subdomain, recordType,
                               existing, Append(others, recs[i]))

\* the mutant of UpToDate: the skip is never taken
UpToDateNever(existing, value) == FALSE

\* UpdateRecord: existingRecord != nil && existingRecord.Destination == record.Value
UpToDate(existing, value) ==
    existing # <<>> /\ existing[1].Destination = value

\* the mutant of UpdatedRecords: the record found is kept beside the new one
UpdatedRecordsKeepExisting(part, subdomain, recordType, value) ==
    Append(part.others \o part.existing,
           NetcupRecord("", subdomain, recordType, value))

\* UpdateRecord: recordToUpdate appended to otherRecords
UpdatedRecords(part, subdomain, recordType, value) ==
    Append(part.others,
           NetcupRecord(IF part.existing # <<>> THEN part.existing[1].ID ELSE "",
                        subdomain, recordType, value))

(***************************************************************************)
(* Input alphabets.                                                        *)
(***************************************************************************)
\* characters of the prefixes given to extractSubdomain
PrefixChars == {"a", "A", "*", "."}
\* characters of the domains given to extractSubdomain
DomainChars == {"b", "B", "."}

\* all strings over chars with 1..n characters
RECURSIVE StringsUpTo(_, _)
StringsUpTo(chars, n) ==
    IF n = 0 THEN {}
    ELSE LET shorter == StringsUpTo(chars, n - 1)
         IN  {<<c>> : c \in chars} \cup shorter
               \cup {Append(s, c) : s \in shorter, c \in chars}

VARIABLES
    sessionID,      \* NetcupClient.sessionID ("" when there is none)
    sessionExpiry,  \* NetcupClient.sessionExpiry, a clock tick (ZeroTime: time.Time{})
    sessionMu,      \* NetcupClient.sessionMu: the tasks holding the write lock
    now,            \* time.Now(), in clock ticks
    pc,             \* where each task is in its call
    call,           \* the arguments and locals of each task's call
    records,        \* mockNetcupAPIServer.records: the backend's list for Domain
    issued,         \* number of logins the backend has answered with a session id
    ncalls,         \* number of provider calls started
    active,         \* the tasks that serve requests in this scenario
    subArgs,        \* extractSubdomain scenario: [prefix, domain]
    subResult,      \* extractSubdomain scenario: results, once computed
    request,        \* handler scenario: the *http.Request being served
    hpc,            \* handler scenario: where ServeHTTP is
    response,       \* handler scenario: what was written to the ResponseWriter
    providerCalls,  \* handler scenario: the UpdateRecord calls made on the provider
    zoneCache,      \* AwsRoute53Client.zoneCache: domain -> zone id
    r53pc,          \* where each task is in its Route53 call
    r53call,        \* the arguments and locals of each task's Route53 call
    recordSets,     \* the Route53 backend's resource record sets
    hostedZones,    \* the Route53 backend's zone directory, in pages
    shutdown,       \* RunServer from the stop signal on
    factories,      \* provider.factories: the <<name, factory>> entries
    regCall,        \* the latest RegisterFactory call and how it ended
    runServer       \* RunServer up to the start of the server

clientVars == <<sessionID, sessionExpiry, sessionMu>>
taskVars == <<pc, call, ncalls, active>>
backendVars == <<records, issued>>
netVars == <<sessionID, sessionExpiry, sessionMu, now, pc, call,
             records, issued, ncalls, active>>
handlerVars == <<request, hpc, response, providerCalls>>
r53Vars == <<zoneCache, r53pc, r53call, recordSets, hostedZones>>
subVars == <<subArgs, subResult, request, hpc, response, providerCalls,
             zoneCache, r53pc, r53call, recordSets, hostedZones, shutdown,
             factories, regCall, runServer>>
vars == <<sessionID, sessionExpiry, sessionMu, now, pc, call,
          records, issued, ncalls, active, subArgs, subResult,
          request, hpc, response, providerCalls,
          zoneCache, r53pc, r53call, recordSets, hostedZones, shutdown,
          factories, regCall, runServer>>

\* time.Time{}
ZeroTime == 0

\* a task that is in no call
NoCall ==
    [kind |-> "none", name |-> <<>>, type |-> "", value |-> "",
     subdomain |-> <<>>, phase |-> "", sid |-> "", resp |-> "", err |-> "",
     got |-> FALSE, fetched |-> <<>>, submitted |-> <<>>, sent |-> <<>>,
     rec |-> <<>>, entry |-> ""]

NoResult == [joined |-> <<>>, apex |-> <<>>, done |-> FALSE]

\* NewNetcupClient: no session; the fake backend of the tests
InitClient ==
    /\ sessionID = ""
    /\ sessionExpiry = ZeroTime
    /\ sessionMu = {}
    /\ now = 1
    /\ pc = [t \in Tasks |-> "idle"]
    /\ call = [t \in Tasks |-> NoCall]
    /\ issued = 0
    /\ ncalls = 0

\* no request is being served
NoRequest ==
    [method |-> "", path |-> <<>>, hostname |-> <<>>, myip |-> <<>>,
     forwarded |-> <<>>, remoteAddr |-> <<>>]

\* nothing has been written to the ResponseWriter
NoResponse == [code |-> 0, body |-> <<>>]

\* the handler scenario is not run
HandlerIdle ==
    /\ request = NoRequest
    /\ hpc = "off"
    /\ response = NoResponse
    /\ providerCalls = <<>>

\* an AwsRoute53Client call that has not started
NoR53Call ==
    [kind |-> "none", domain |-> <<>>, name |-> <<>>, type |-> "", value |-> "",
     ttl |-> 0, inGet |-> FALSE, zoneID |-> <<>>, getZone |-> <<>>,
     page |-> 0, listed |-> 0,
     cached |-> FALSE, failed |-> {}, found |-> "", getErr |-> "",
     changes |-> <<>>, err |-> ""]

\* the Route53 scenario is not run
R53Idle ==
    /\ zoneCache = {}
    /\ r53pc = [t \in Tasks |-> "idle"]
    /\ r53call = [t \in Tasks |-> NoR53Call]
    /\ recordSets = {}
    /\ hostedZones = <<>>

\* RunServer before the stop signal, with no request in flight
NoShutdown ==
    [pc |-> "off", elapsed |-> 0, conns |-> 0, atStop |-> 0,
     closes |-> 0, closeErr |-> FALSE, stopped |-> FALSE, result |-> ""]

\* the shutdown scenario is not run
ShutdownIdle == shutdown = NoShutdown

\* no RegisterFactory call yet
NoRegCall == [name |-> "", factory |-> "", panicked |-> FALSE]

\* RunServer has not been called
NoRunServer ==
    [pc |-> "off", provider |-> "", factory |-> "", constructed |-> FALSE,
     started |-> FALSE, result |-> ""]

\* the registry scenario is not run
RegistryIdle ==
    /\ factories = {}
    /\ regCall = NoRegCall
    /\ runServer = NoRunServer

\* the extractSubdomain and handler scenarios are not run
SubIdle ==
    /\ subArgs = [prefix |-> <<>>, domain |-> <<>>]
    /\ subResult = [NoResult EXCEPT !.done = TRUE]
    /\ HandlerIdle

\* concurrent requests against the backend of newMockNetcupAPIServer
Init ==
    /\ InitClient
    /\ records = MockRecords
    /\ active = Tasks
    /\ SubIdle
    /\ R53Idle
    /\ ShutdownIdle
    /\ RegistryIdle

\* every record list of at most n records, ids numbered by position
RECURSIVE RecordLists(_)
RecordLists(n) ==
    IF n = 0 THEN {<<>>}
    ELSE LET shorter == RecordLists(n - 1)
         IN  shorter \cup
             {Append(l, NetcupRecord(ToString(Len(l) + 1), r[1], r[2], r[3])) :
                 l \in {x \in shorter : Len(x) = n - 1}, r \in RecordPool}

\* one caller at a time, against a backend holding any record list
InitSeq ==
    /\ InitClient
    /\ records \in RecordLists(MaxRecs)
    /\ active = {1}
    /\ SubIdle
    /\ R53Idle
    /\ ShutdownIdle
    /\ RegistryIdle

\* one caller on a client that is fresh, or that holds the session of an earlier
\* login (the state a successful record call leaves behind)
InitSess ==
    /\ \E held \in BOOLEAN :
          /\ sessionID = (IF held THEN SidOf(1) ELSE "")
          /\ sessionExpiry = (IF held THEN 1 + SessionRefreshTime ELSE ZeroTime)
          /\ issued = (IF held THEN 1 ELSE 0)
    /\ sessionMu = {}
    /\ now = 1
    /\ pc = [t \in Tasks |-> "idle"]
    /\ call = [t \in Tasks |-> NoCall]
    /\ ncalls = 0
    /\ records = MockRecords
    /\ active = {1}
    /\ SubIdle
    /\ R53Idle
    /\ ShutdownIdle
    /\ RegistryIdle

(***************************************************************************)
(* Helpers of the actions.                                                 *)
(***************************************************************************)
\* time.Now().After(c.sessionExpiry)
IsExpired == now > sessionExpiry

\* hasSession && !isExpired
SessionValid == sessionID # "" /\ ~IsExpired

\* the session as a call finds it on entry: no token, a token past its expiry,
\* or a token still in use
SessionAtEntry ==
    IF sessionID = "" THEN "empty"
    ELSE IF IsExpired THEN "expired" ELSE "valid"

Goto(t, label) == pc' = [pc EXCEPT ![t] = label]

\* the call returns err
Finish(t, c, err) ==
    /\ call' = [call EXCEPT ![t] = [c EXCEPT !.err = err]]
    /\ Goto(t, "done")

(***************************************************************************)
(* Entry points of the Provider interface.                                 *)
(***************************************************************************)
\* GetRecord up to its call of ensureSession
GetRecord(t) ==
    /\ pc[t] = "idle" /\ t \in active /\ ncalls < MaxCalls
    /\ \E name \in Hostnames, type \in CallTypes :
         call' = [call EXCEPT ![t] =
                    [NoCall EXCEPT !.kind = "get", !.name = name, !.type = type,
                                   !.subdomain = extractSubdomain(name, Domain),
                                   !.phase = "info", !.entry = SessionAtEntry]]
    /\ Goto(t, "es_check")
    /\ ncalls' = ncalls + 1
    /\ UNCHANGED <<clientVars, now, backendVars, active, subVars>>

\* UpdateRecord up to its call of ensureSession
UpdateRecord(t) ==
    /\ pc[t] = "idle" /\ t \in active /\ ncalls < MaxCalls
    /\ \E name \in Hostnames, type \in CallTypes, value \in Values :
         call' = [call EXCEPT ![t] =
                    [NoCall EXCEPT !.kind = "update", !.name = name, !.type = type,
                                   !.value = value,
                                   !.subdomain = extractSubdomain(name, Domain),
                                   !.phase = "info", !.entry = SessionAtEntry]]
    /\ Goto(t, "es_check")
    /\ ncalls' = ncalls + 1
    /\ UNCHANGED <<clientVars, now, backendVars, active, subVars>>

\* Close: Logout
Close(t) ==
    /\ pc[t] = "idle" /\ t \in active /\ ncalls < MaxCalls
    /\ call' = [call EXCEPT ![t] = [NoCall EXCEPT !.kind = "close",
                                                  !.entry = SessionAtEntry]]
    /\ Goto(t, "logout_check")
    /\ ncalls' = ncalls + 1
    /\ UNCHANGED <<clientVars, now, backendVars, active, subVars>>

(***************************************************************************)
(* ensureSession and login.                                                *)
(***************************************************************************)
\* ensureSession: the check under RLock (fast path)
EnsureSessionCheck(t) ==
    /\ pc[t] = "es_check"
    /\ sessionMu = {}
    /\ Goto(t, IF SessionValid THEN "params" ELSE "es_lock")
    /\ UNCHANGED <<clientVars, now, call, ncalls, active, backendVars, subVars>>

\* ensureSession: c.sessionMu.Lock()
EnsureSessionLock(t) ==
    /\ pc[t] = "es_lock"
    /\ sessionMu = {}
    /\ sessionMu' = {t}
    /\ Goto(t, "es_recheck")
    /\ UNCHANGED <<sessionID, sessionExpiry, now, call, ncalls, active,
                   backendVars, subVars>>

\* the mutant of EnsureSessionRecheck: the second check never logs in
EnsureSessionRecheckNoLogin(t) ==
    /\ pc[t] = "es_recheck"
    /\ t \in sessionMu
    /\ sessionMu' = {}
    /\ Goto(t, "params")
    /\ UNCHANGED <<sessionID, sessionExpiry, now, call, ncalls, active, records,
                   issued, subVars>>

\* ensureSession: the second check; a valid session returns through the deferred
\* Unlock, otherwise the lock is released and login sends its request
EnsureSessionRecheck(t) ==
    /\ pc[t] = "es_recheck"
    /\ t \in sessionMu
    /\ sessionMu' = {}
    /\ IF SessionValid
       THEN /\ Goto(t, "params")
            /\ UNCHANGED call
       ELSE /\ call' = [call EXCEPT ![t].sent = Append(@, "login")]
            /\ Goto(t, "login_wait")
    /\ UNCHANGED <<sessionID, sessionExpiry, now, ncalls, active, records,
                   issued, subVars>>

\* the mutant of LoginResponse: a failed login drops the session
LoginResponseFailClears(t) ==
    /\ pc[t] = "login_wait"
    /\ \E ok \in BOOLEAN :
         IF ok
         THEN /\ issued' = issued + 1
              /\ call' = [call EXCEPT ![t].resp = SidOf(issued + 1)]
              /\ Goto(t, "login_lock")
              /\ UNCHANGED clientVars
         ELSE /\ call' = [call EXCEPT ![t].err = "login request"]
              /\ Goto(t, "es_relock")
              /\ sessionID' = ""
              /\ sessionExpiry' = ZeroTime
              /\ UNCHANGED <<issued, sessionMu>>
    /\ UNCHANGED <<now, ncalls, active, records, subVars>>

\* the backend answers the login request, or the request fails
LoginResponse(t) ==
    /\ pc[t] = "login_wait"
    /\ \E ok \in BOOLEAN :
         IF ok
         THEN /\ issued' = issued + 1
              /\ call' = [call EXCEPT ![t].resp = SidOf(issued + 1)]
              /\ Goto(t, "login_lock")
         ELSE /\ call' = [call EXCEPT ![t].err = "login request"]
              /\ Goto(t, "es_relock")
              /\ UNCHANGED issued
    /\ UNCHANGED <<clientVars, now, ncalls, active, records, subVars>>

\* login: c.sessionMu.Lock()
LoginLock(t) ==
    /\ pc[t] = "login_lock"
    /\ sessionMu = {}
    /\ sessionMu' = {t}
    /\ Goto(t, "login_store")
    /\ UNCHANGED <<sessionID, sessionExpiry, now, call, ncalls, active,
                   backendVars, subVars>>

\* login: the session id and its expiry are stored, then Unlock
LoginStore(t) ==
    /\ pc[t] = "login_store"
    /\ t \in sessionMu
    /\ sessionID' = call[t].resp
    /\ sessionExpiry' = now + SessionRefreshTime
    /\ sessionMu' = {}
    /\ Goto(t, "login_log")
    /\ UNCHANGED <<now, call, ncalls, active, backendVars, subVars>>

\* login: the success message formats c.sessionExpiry after the Unlock
LoginLog(t) ==
    /\ pc[t] = "login_log"
    /\ Goto(t, "es_relock")
    /\ UNCHANGED <<clientVars, now, call, ncalls, active, backendVars, subVars>>

\* ensureSession: Lock again for the deferred Unlock, and return login's error
EnsureSessionReturn(t) ==
    /\ pc[t] = "es_relock"
    /\ sessionMu = {}
    /\ IF call[t].err = ""
       THEN Goto(t, "params") /\ UNCHANGED call
       ELSE Finish(t, call[t],
                   IF call[t].phase = "info" THEN "get DNS records"
                                             ELSE "update DNS record")
    /\ UNCHANGED <<clientVars, now, ncalls, active, backendVars, subVars>>

(***************************************************************************)
(* InfoDNSRecords and UpdateDNSRecords after ensureSession.                *)
(***************************************************************************)
\* the mutant of SendRequest: the lock is taken and kept while the request is
\* in flight
SendRequestLocked(t) ==
    /\ pc[t] = "params"
    /\ sessionMu = {}
    /\ sessionMu' = {t}
    /\ LET action == IF call[t].phase = "info" THEN "infoDnsRecords"
                                               ELSE "updateDnsRecords"
       IN  call' = [call EXCEPT ![t].sid = sessionID,
                                ![t].sent = Append(@, action)]
    /\ Goto(t, IF call[t].phase = "info" THEN "info_wait" ELSE "upd_wait")
    /\ UNCHANGED <<sessionID, sessionExpiry, now, ncalls, active, records,
                   issued, subVars>>

\* getSessionParams under RLock, then the request is sent
SendRequest(t) ==
    /\ pc[t] = "params"
    /\ sessionMu = {}
    /\ LET action == IF call[t].phase = "info" THEN "infoDnsRecords"
                                               ELSE "updateDnsRecords"
       IN  call' = [call EXCEPT ![t].sid = sessionID,
                                ![t].sent = Append(@, action)]
    /\ Goto(t, IF call[t].phase = "info" THEN "info_wait" ELSE "upd_wait")
    /\ UNCHANGED <<clientVars, now, ncalls, active, records, issued, subVars>>

\* GetRecord after InfoDNSRecords returned the list
GetRecordResult(t, c) ==
    LET found == FindRecord(c.fetched, 1, c.subdomain, c.type)
    IN  IF found # <<>>
        THEN Finish(t, [c EXCEPT !.rec = <<[Name |-> c.name, Type |-> found[1].Type,
                                            Value |-> found[1].Destination,
                                            TTL |-> DefaultTTL]>>], "")
        ELSE Finish(t, c, "record not found")

\* UpdateRecord after InfoDNSRecords returned the list
UpdateRecordDecide(t, c) ==
    LET part == PartitionRecords(c.fetched, 1, c.subdomain, c.type, <<>>, <<>>)
    IN  IF UpToDate(part.existing, c.value)
        THEN Finish(t, c, "")
        ELSE /\ call' = [call EXCEPT ![t] =
                           [c EXCEPT !.phase = "update",
                                     !.submitted = UpdatedRecords(part, c.subdomain,
                                                                  c.type, c.value)]]
             /\ Goto(t, "es_check")

\* the backend answers infoDnsRecords with its list, or the request fails
InfoResponse(t) ==
    /\ pc[t] = "info_wait"
    /\ \E ok \in BOOLEAN :
         IF ok
         THEN LET c == [call[t] EXCEPT !.got = TRUE, !.fetched = records]
              IN  IF c.kind = "get" THEN GetRecordResult(t, c)
                                    ELSE UpdateRecordDecide(t, c)
         ELSE Finish(t, call[t], "get DNS records")
    /\ UNCHANGED <<clientVars, now, ncalls, active, backendVars, subVars>>

\* the backend replaces its list by the one submitted, or the request fails
UpdateResponse(t) ==
    /\ pc[t] = "upd_wait"
    /\ \E ok \in BOOLEAN :
         IF ok
         THEN records' = call[t].submitted /\ Finish(t, call[t], "")
         ELSE UNCHANGED records /\ Finish(t, call[t], "update DNS record")
    /\ UNCHANGED <<clientVars, now, ncalls, active, issued, subVars>>

(***************************************************************************)
(* Logout.                                                                 *)
(***************************************************************************)
\* the mutant of LogoutCheck: the logout is sent without looking at the session
LogoutCheckAlways(t) ==
    /\ pc[t] = "logout_check"
    /\ sessionMu = {}
    /\ Goto(t, "logout_params")
    /\ UNCHANGED <<clientVars, now, call, ncalls, active, backendVars, subVars>>

\* Logout: nothing to do without a session
LogoutCheck(t) ==
    /\ pc[t] = "logout_check"
    /\ sessionMu = {}
    /\ IF sessionID = ""
       THEN Finish(t, call[t], "")
       ELSE Goto(t, "logout_params") /\ UNCHANGED call
    /\ UNCHANGED <<clientVars, now, ncalls, active, backendVars, subVars>>

\* Logout: getSessionParams, then the logout request is sent
LogoutSend(t) ==
    /\ pc[t] = "logout_params"
    /\ sessionMu = {}
    /\ call' = [call EXCEPT ![t].sid = sessionID, ![t].sent = Append(@, "logout")]
    /\ Goto(t, "logout_wait")
    /\ UNCHANGED <<clientVars, now, ncalls, active, records, issued, subVars>>

\* the backend answers logout, or the request fails
LogoutResponse(t) ==
    /\ pc[t] = "logout_wait"
    /\ \E ok \in BOOLEAN :
         IF ok
         THEN Goto(t, "logout_lock") /\ UNCHANGED call
         ELSE Finish(t, call[t], "logout request")
    /\ UNCHANGED <<clientVars, now, ncalls, active, backendVars, subVars>>

\* Logout: c.sessionMu.Lock()
LogoutLock(t) ==
    /\ pc[t] = "logout_lock"
    /\ sessionMu = {}
    /\ sessionMu' = {t}
    /\ Goto(t, "logout_clear")
    /\ UNCHANGED <<sessionID, sessionExpiry, now, call, ncalls, active,
                   backendVars, subVars>>

\* the mutant of LogoutClear: the expiry is reset but the token is kept
LogoutClearKeepsToken(t) ==
    /\ pc[t] = "logout_clear"
    /\ t \in sessionMu
    /\ sessionExpiry' = ZeroTime
    /\ sessionMu' = {}
    /\ Finish(t, call[t], "")
    /\ UNCHANGED <<sessionID, now, ncalls, active, backendVars, subVars>>

\* Logout: the session is cleared, then Unlock
LogoutClear(t) ==
    /\ pc[t] = "logout_clear"
    /\ t \in sessionMu
    /\ sessionID' = ""
    /\ sessionExpiry' = ZeroTime
    /\ sessionMu' = {}
    /\ Finish(t, call[t], "")
    /\ UNCHANGED <<now, ncalls, active, backendVars, subVars>>

\* the call has returned to its caller
Return(t) ==
    /\ pc[t] = "done"
    /\ call' = [call EXCEPT ![t] = NoCall]
    /\ Goto(t, "idle")
    /\ UNCHANGED <<clientVars, now, ncalls, active, backendVars, subVars>>

\* time passes
Tick ==
    /\ now < MaxTime
    /\ now' = now + 1
    /\ UNCHANGED <<clientVars, taskVars, backendVars, subVars>>

Next ==
    \/ \E t \in Tasks :
         \/ GetRecord(t) \/ UpdateRecord(t) \/ Close(t)
         \/ EnsureSessionCheck(t) \/ EnsureSessionLock(t) \/ EnsureSessionRecheck(t)
         \/ LoginResponse(t) \/ LoginLock(t) \/ LoginStore(t) \/ LoginLog(t)
         \/ EnsureSessionReturn(t)
         \/ SendRequest(t) \/ InfoResponse(t) \/ UpdateResponse(t)
         \/ LogoutCheck(t) \/ LogoutSend(t) \/ LogoutResponse(t)
         \/ LogoutLock(t) \/ LogoutClear(t)
         \/ Return(t)
    \/ Tick

\* concurrent requests on the shared client
Spec == Init /\ [][Next]_vars

\* one caller, any backend record list
SpecSeq == InitSeq /\ [][Next]_vars

\* one caller, on a fresh client or on one holding the session of a login
SpecSess == InitSess /\ [][Next]_vars

\* backend lists whose record differs from what the calls ask for in letter
\* case only: in the hostname, or in the type
MixedCaseRecords ==
    { << NetcupRecord("1", <<"W">>, "A", "1.1.1.1") >>,
      << NetcupRecord("1", <<"w">>, "a", "1.1.1.1") >> }

\* one caller, against a backend whose record is written in another letter case
InitCase ==
    /\ InitClient
    /\ records \in MixedCaseRecords
    /\ active = {1}
    /\ SubIdle
    /\ R53Idle
    /\ ShutdownIdle
    /\ RegistryIdle

\* two tasks share a new client
InitPair ==
    /\ InitClient
    /\ records = MockRecords
    /\ active = {1, 2}
    /\ SubIdle
    /\ R53Idle
    /\ ShutdownIdle
    /\ RegistryIdle

\* the steps of the tasks, the clock standing still
NextPair ==
    \E t \in Tasks :
        \/ GetRecord(t) \/ UpdateRecord(t) \/ Close(t)
        \/ EnsureSessionCheck(t) \/ EnsureSessionLock(t) \/ EnsureSessionRecheck(t)
        \/ LoginResponse(t) \/ LoginLock(t) \/ LoginStore(t) \/ LoginLog(t)
        \/ EnsureSessionReturn(t)
        \/ SendRequest(t) \/ InfoResponse(t) \/ UpdateResponse(t)
        \/ LogoutCheck(t) \/ LogoutSend(t) \/ LogoutResponse(t)
        \/ LogoutLock(t) \/ LogoutClear(t)
        \/ Return(t)

\* two concurrent tasks within the lifetime of a session
SpecPair == InitPair /\ [][NextPair]_vars

\* one caller, a backend record in another letter case
SpecCase == InitCase /\ [][Next]_vars

(***************************************************************************)
(* Session acquisition under concurrency (checked under Spec).             *)
(***************************************************************************)
\* the tasks whose login request is in flight
LoginsInFlight == {t \in Tasks : pc[t] = "login_wait"}

\* the tasks in a GetRecord or UpdateRecord call
RecordCalls == {t \in Tasks : call[t].kind \in {"get", "update"}}

\* the tasks whose call has sent the given request
HasSent(t, action) == \E k \in 1..Len(call[t].sent) : call[t].sent[k] = action

\* C1: under any interleaving of record calls that find the session missing or
\* expired, at most one login request is in flight at any time.
C1_AtMostOneLoginInFlight ==
    Cardinality(LoginsInFlight) <= 1

\* C2: starting with no session, concurrent record calls against a backend that
\* accepts logins cause exactly one login request in total, and every record
\* request carries the session id of that login.  (The premise: the clock has
\* not advanced, every call started so far is a record call that has not yet
\* returned, and no request has failed.)
C2_SingleLoginForConcurrentCalls ==
    ( /\ now = 1
      /\ ncalls = Cardinality(RecordCalls)
      /\ \A t \in Tasks : call[t].err = "" )
    => /\ Cardinality({t \in Tasks : HasSent(t, "login")}) <= 1
       /\ issued <= 1
       /\ \A t \in Tasks :
             pc[t] \in {"info_wait", "upd_wait"} => call[t].sid = SidOf(1)

\* C3: no infoDnsRecords or updateDnsRecords request is sent with a session id
\* that is empty or that no completed login installed.
C3_RequestsCarryInstalledSession ==
    \A t \in Tasks :
        pc[t] \in {"info_wait", "upd_wait"} =>
            /\ call[t].sid # ""
            /\ call[t].sid \in {SidOf(n) : n \in 1..issued}

\* the task's next step reads or writes sessionID / sessionExpiry outside the
\* single-step RLock sections
AccessesSession(t) ==
    pc[t] \in {"es_recheck", "login_store", "login_log", "logout_clear"}

\* C4: sessionID and sessionExpiry are only read or written while sessionMu is
\* held, and a non-empty sessionID is paired with the expiry a login set.
C4_SessionFieldsUnderLock ==
    /\ \A t \in Tasks : AccessesSession(t) => t \in sessionMu
    /\ sessionID # "" => sessionExpiry # ZeroTime

\* the tasks whose infoDnsRecords or updateDnsRecords request is in flight
RecordRequestsInFlight == {t \in Tasks : pc[t] \in {"info_wait", "upd_wait"}}

\* C31: no task holds sessionMu while its infoDnsRecords or updateDnsRecords
\* request is in flight, so a task at its session check whose peers are all
\* waiting for record responses finds the lock free.
C31_NoLockDuringRecordRequest ==
    /\ \A t \in RecordRequestsInFlight : t \notin sessionMu
    /\ \A u \in Tasks :
         (/\ pc[u] \in {"es_check", "es_lock"}
          /\ \A t \in active \ {u} : t \in RecordRequestsInFlight) =>
             sessionMu = {}

\* C31 witness: one task is at its session check while the other's record
\* request is in flight
C31_Witness ==
    /\ pc[1] \in {"info_wait", "upd_wait"}
    /\ pc[2] = "es_check"
    /\ sessionMu = {}

\* task t's updateDnsRecords request is answered with success in this step
WriteLands(t) ==
    pc[t] = "upd_wait" /\ pc'[t] = "done" /\ call'[t].err = ""

\* the records of a list that match the target of task t's call
TargetRecords(recs, t) ==
    {k \in 1..Len(recs) :
        recs[k].Hostname = call[t].subdomain /\ recs[k].Type = call[t].type}

\* C32: the backend's list changes only when the updateDnsRecords request of an
\* UpdateRecord call succeeds, and the list then holds exactly one record for
\* that call's (subdomain, type), with that call's value: of concurrent calls
\* for one target, the one whose write reaches the backend last determines the
\* value.
C32_LastWriteWins ==
    /\ [][\A t \in Tasks :
             WriteLands(t) =>
                 /\ Cardinality(TargetRecords(records', t)) = 1
                 /\ \A k \in TargetRecords(records', t) :
                       records'[k].Destination = call[t].value]_vars
    /\ [][records' # records => \E t \in Tasks : WriteLands(t)]_vars

\* C32 witness: two concurrent UpdateRecord calls for one target with different
\* values have both written and returned success
C32_Witness ==
    /\ pc[1] = "done" /\ pc[2] = "done"
    /\ call[1].kind = "update" /\ call[2].kind = "update"
    /\ call[1].name = call[2].name
    /\ call[1].value # call[2].value
    /\ call[1].err = "" /\ call[2].err = ""
    /\ HasSent(1, "updateDnsRecords") /\ HasSent(2, "updateDnsRecords")
    /\ call[2].fetched # MockRecords

\* C33: when two concurrent UpdateRecord calls for different subdomains have
\* both returned success, the backend's list holds the requested value of each.
C33_DifferentTargetsBothTakeEffect ==
    (/\ \A t \in {1, 2} : /\ pc[t] = "done"
                          /\ call[t].kind = "update"
                          /\ call[t].err = ""
     /\ call[1].subdomain # call[2].subdomain) =>
        \A t \in {1, 2} :
            \E k \in 1..Len(records) :
                /\ records[k].Hostname = call[t].subdomain
                /\ records[k].Type = call[t].type
                /\ records[k].Destination = call[t].value

\* C39: whenever the provider's token is erased, the task that erases it is a
\* Logout whose logout request was sent for that very token; a token installed
\* after Logout read the session id is not erased.
C39_LogoutClearsOnlyItsSession ==
    [][(sessionID # "" /\ sessionID' = "") =>
          \E t \in Tasks : /\ pc[t] = "logout_clear"
                           /\ pc'[t] = "done"
                           /\ call[t].sid = sessionID]_vars

(***************************************************************************)
(* The upsert of UpdateRecord and the lookup of GetRecord (checked under   *)
(* SpecSeq: one caller, any backend record list).                          *)
(***************************************************************************)
\* the positions of the fetched records matching the call's (subdomain, type)
MatchingAt(t) ==
    {i \in 1..Len(call[t].fetched) :
        /\ call[t].fetched[i].Hostname = call[t].subdomain
        /\ call[t].fetched[i].Type = call[t].type}

\* the call has fetched the domain's records
Fetched(t, kind) == call[t].kind = kind /\ call[t].got

\* the call returned success without an updateDnsRecords request
SkippedUpdate(t) ==
    /\ pc[t] = "done"
    /\ call[t].err = ""
    /\ \A k \in 1..Len(call[t].sent) :
          call[t].sent[k] \in {"login", "infoDnsRecords"}

C6_UpsertPostcondition ==
    \A t \in Tasks :
        (call[t].kind = "update" /\ pc[t] = "done" /\ call[t].err = "") =>
            LET found == FindRecord(records, 1,
                                    extractSubdomain(call[t].name, Domain),
                                    call[t].type)
            IN  found # <<>> /\ found[1].Destination = call[t].value

\* the call has handed a list to updateDnsRecords
UpdateSent(t) == call[t].kind = "update" /\ HasSent(t, "updateDnsRecords")

\* the fetched records that do not match the call's (subdomain, type), in order
UnrelatedFetched(t) ==
    LET unrelated(r) == ~(r.Hostname = call[t].subdomain /\ r.Type = call[t].type)
    IN  SelectSeq(call[t].fetched, unrelated)

\* C7: the list submitted to updateDnsRecords is every fetched record that does
\* not match (subdomain, type), unchanged, plus exactly one replacement with the
\* requested (subdomain, type, value); the replacement carries the id of an
\* existing matching record if there was one, and no id if it is new.
C7_SubmittedIsOthersPlusReplacement ==
    \A t \in Tasks :
        UpdateSent(t) =>
            LET s == call[t].submitted
                keep == UnrelatedFetched(t)
            IN  /\ Len(s) = Len(keep) + 1
                /\ SubSeq(s, 1, Len(keep)) = keep
                /\ s[Len(s)].Hostname = extractSubdomain(call[t].name, Domain)
                /\ s[Len(s)].Type = call[t].type
                /\ s[Len(s)].Destination = call[t].value
                /\ IF MatchingAt(t) = {}
                   THEN s[Len(s)].ID = ""
                   ELSE s[Len(s)].ID \in {call[t].fetched[i].ID : i \in MatchingAt(t)}

\* C7 witness: an update in place is in flight, submitting an unrelated record
\* followed by the replacement that carries the existing record's id
C7_Witness ==
    \E t \in Tasks :
        /\ pc[t] = "upd_wait"
        /\ Len(call[t].fetched) = 2
        /\ MatchingAt(t) = {1}
        /\ Len(call[t].submitted) = 2
        /\ call[t].submitted[1] = call[t].fetched[2]
        /\ call[t].submitted[2].ID = "1"

\* C8: when several fetched records match (subdomain, type), exactly one of them
\* is treated as the existing record and every other one is kept among the
\* others of the submitted list.
C8_OtherMatchesKept ==
    \A t \in Tasks :
        (UpdateSent(t) /\ MatchingAt(t) # {}) =>
            LET s == call[t].submitted
                kept == {i \in MatchingAt(t) :
                            \E j \in 1..(Len(s) - 1) : s[j] = call[t].fetched[i]}
            IN  Cardinality(kept) = Cardinality(MatchingAt(t)) - 1

\* C9: GetRecord sends no updateDnsRecords request; once the list is fetched it
\* returns a matching record's value if the list holds a match and "record not
\* found" otherwise; and the backend's list changes only by the
\* updateDnsRecords request of an UpdateRecord call.
C9_GetRecordReadOnly ==
    /\ [](\A t \in Tasks :
            call[t].kind = "get" =>
              /\ pc[t] # "upd_wait"
              /\ \A k \in 1..Len(call[t].sent) :
                    call[t].sent[k] \in {"login", "infoDnsRecords"}
              /\ (pc[t] = "done" /\ call[t].got) =>
                    IF MatchingAt(t) # {}
                    THEN /\ call[t].err = ""
                         /\ \E i \in MatchingAt(t) :
                               call[t].rec = <<[Name |-> call[t].name,
                                                Type |-> call[t].type,
                                                Value |-> call[t].fetched[i].Destination,
                                                TTL |-> DefaultTTL]>>
                    ELSE call[t].err = "record not found" /\ call[t].rec = <<>>)
    /\ [][records' # records =>
            \E t \in Tasks : call[t].kind = "update" /\ pc[t] = "upd_wait"]_vars

\* C9 witness: a GetRecord returned a record found in a list of two records
C9_Witness ==
    \E t \in Tasks :
        /\ call[t].kind = "get" /\ pc[t] = "done" /\ call[t].got
        /\ call[t].err = "" /\ call[t].rec # <<>>
        /\ Len(call[t].fetched) = 2
        /\ records = call[t].fetched

\* a record type in lower case
LowerType(type) ==
    IF type = "A" THEN "a" ELSE IF type = "AAAA" THEN "aaaa" ELSE type

\* the records of a list that equal the target of task t's call up to letter case
SameTargetIgnoringCase(recs, t) ==
    {k \in 1..Len(recs) :
        /\ ToLower(recs[k].Hostname) = ToLower(call[t].subdomain)
        /\ LowerType(recs[k].Type) = LowerType(call[t].type)}

\* C36: when the fetched list holds a record that equals the requested
\* subdomain and type up to letter case, GetRecord returns a record, and the list
\* UpdateRecord submits holds one record for that target, carrying the id of the
\* fetched one.
C36_MatchingIgnoresCase ==
    \A t \in Tasks :
        (call[t].got /\ SameTargetIgnoringCase(call[t].fetched, t) # {}) =>
            /\ (call[t].kind = "get" /\ pc[t] = "done") => call[t].err = ""
            /\ (call[t].kind = "update" /\ call[t].submitted # <<>>) =>
                  /\ Cardinality(SameTargetIgnoringCase(call[t].submitted, t)) = 1
                  /\ \A k \in SameTargetIgnoringCase(call[t].submitted, t) :
                        call[t].submitted[k].ID # ""

\* C37: UpdateRecord treats as the existing record the one GetRecord reports,
\* the first record of the fetched list that matches (subdomain, type): it skips
\* the mutation exactly if that record has the requested value, and otherwise
\* submits its replacement under that record's id.
C37_SameCanonicalRecord ==
    \A t \in Tasks :
        LET c == call[t]
            first == FindRecord(c.fetched, 1, c.subdomain, c.type)
        IN  (/\ c.kind = "update"
             /\ c.got
             /\ c.submitted # <<>> \/ (pc[t] = "done" /\ c.err = "")) =>
               /\ c.submitted = <<>> <=>
                     (first # <<>> /\ first[1].Destination = c.value)
               /\ (c.submitted # <<>> /\ first # <<>>) =>
                     c.submitted[Len(c.submitted)].ID = first[1].ID

(***************************************************************************)
(* The session lifecycle seen by one caller (checked under SpecSess).      *)
(***************************************************************************)
\* the number of login requests the call has sent
LoginCount(t) ==
    Cardinality({k \in 1..Len(call[t].sent) : call[t].sent[k] = "login"})

\* a GetRecord or UpdateRecord call that found the session empty or expired
StaleCall(t) ==
    call[t].kind \in {"get", "update"} /\ call[t].entry \in {"empty", "expired"}

C12_LoginIffEmptyOrAtExpiry ==
    [][\A t \in Tasks :
          /\ (pc[t] = "es_check" /\ pc'[t] # "es_check") =>
                (pc'[t] = "es_lock" <=> (sessionID = "" \/ now >= sessionExpiry))
          /\ (pc[t] = "es_recheck" /\ pc'[t] # "es_recheck") =>
                (pc'[t] = "login_wait" <=> (sessionID = "" \/ now >= sessionExpiry))
      ]_vars

\* C13: when a session was held at the time Close was called, the session state
\* is cleared once Close has returned, whatever the outcome of the logout
\* request.
C13_CloseClearsSession ==
    \A t \in Tasks :
        (call[t].kind = "close" /\ call[t].entry # "empty" /\ pc[t] = "done") =>
            sessionID = "" /\ sessionExpiry = ZeroTime

\* C14: Close called while no session is held returns success, sends no request
\* to the backend and leaves the session state unchanged.
C14_CloseWithoutSessionIsNoOp ==
    /\ [](\A t \in Tasks :
            (call[t].kind = "close" /\ call[t].entry = "empty") =>
                /\ call[t].sent = <<>>
                /\ call[t].err = ""
                /\ pc[t] \in {"logout_check", "done"})
    /\ [][\A t \in Tasks :
             (call[t].kind = "close" /\ call[t].entry = "empty") =>
                 /\ sessionID' = sessionID
                 /\ sessionExpiry' = sessionExpiry
                 /\ sessionMu' = sessionMu
                 /\ issued' = issued /\ records' = records]_vars

\* C14 witness: a Close that found no session has returned
C14_Witness ==
    \E t \in Tasks :
        /\ call[t].kind = "close" /\ call[t].entry = "empty"
        /\ pc[t] = "done" /\ call[t].err = "" /\ call[t].sent = <<>>

\* C15: a successful Close leaves the client without a session and unlocked,
\* and a GetRecord or UpdateRecord call that follows it is not refused: it logs
\* in again as its first request, sends its record requests with the session of
\* that login, and returns what the backend's answers determine.
C15_CloseIsNotTerminal ==
    /\ \A t \in Tasks :
          (call[t].kind = "close" /\ pc[t] = "done" /\ call[t].err = "") =>
              sessionID = "" /\ sessionMu = {}
    /\ \A t \in Tasks :
          (call[t].kind \in {"get", "update"} /\ call[t].entry = "empty") =>
              /\ call[t].sent # <<>> => call[t].sent[1] = "login"
              /\ pc[t] \in {"info_wait", "upd_wait"} =>
                    call[t].sid # "" /\ call[t].sid = SidOf(issued)
              /\ (pc[t] = "done" /\ call[t].err # "") =>
                    \/ call[t].err = "record not found" /\ MatchingAt(t) = {}
                    \/ call[t].err = "get DNS records" /\ ~call[t].got
                    \/ call[t].err = "update DNS record" /\ call[t].got
              /\ (pc[t] = "done" /\ call[t].err = "") =>
                    /\ call[t].got
                    /\ call[t].kind = "get" => call[t].rec # <<>>

\* C15 witness: after the session of the first login was closed, a GetRecord
\* has logged in a second time and returned the record
C15_Witness ==
    \E t \in Tasks :
        /\ call[t].kind = "get" /\ call[t].entry = "empty"
        /\ pc[t] = "done" /\ call[t].err = "" /\ call[t].rec # <<>>
        /\ call[t].sid = SidOf(2)
        /\ now = 1

\* task t's login has failed and the error is on its way to the caller
LoginFailing(t) ==
    \/ pc[t] = "login_wait"
    \/ pc[t] = "es_relock" /\ call[t].err # ""

\* C29: a failed login installs no token and leaves the session state as it
\* was, up to the return of the call; every record call that finds the session
\* empty or expired sends a login request as its first backend request, whatever
\* happened to earlier calls; and no record call returns an error without having
\* sent a request to the backend.
C29_FailedLoginLeavesNoTrace ==
    /\ [][\A t \in Tasks :
             (/\ LoginFailing(t)
              /\ pc'[t] \in {"es_relock", "done"}
              /\ call'[t].err # "") =>
                 /\ sessionID' = sessionID
                 /\ sessionExpiry' = sessionExpiry]_vars
    /\ [](\A t \in Tasks :
            /\ (StaleCall(t) /\ pc[t] \notin {"es_check", "es_lock", "es_recheck"}) =>
                  (Len(call[t].sent) >= 1 /\ call[t].sent[1] = "login")
            /\ (call[t].kind \in {"get", "update"} /\ pc[t] = "done"
                /\ call[t].err # "") => call[t].sent # <<>>)

\* C29 witness: a record call that found the token expired has returned the
\* error of its failed login, and the expired token is still in place
C29_Witness ==
    /\ pc[1] = "done"
    /\ call[1].kind \in {"get", "update"}
    /\ call[1].entry = "expired"
    /\ call[1].sent = <<"login">>
    /\ call[1].err # ""
    /\ sessionID = SidOf(1)
    /\ sessionExpiry = 1 + SessionRefreshTime

(***************************************************************************)
(* The extractSubdomain scenario.                                          *)
(***************************************************************************)
InitSub ==
    /\ InitClient
    /\ records = <<>>
    /\ active = {}
    /\ subArgs \in [prefix : StringsUpTo(PrefixChars, MaxLen),
                    domain : StringsUpTo(DomainChars, MaxLen)]
    /\ subResult = NoResult
    /\ HandlerIdle
    /\ R53Idle
    /\ ShutdownIdle
    /\ RegistryIdle

\* hostname construction followed by extractSubdomain, and the apex case
ExtractStep ==
    /\ ~subResult.done
    /\ subResult' =
         [joined |-> extractSubdomain(subArgs.prefix \o <<".">> \o subArgs.domain,
                                      subArgs.domain),
          apex   |-> extractSubdomain(subArgs.domain, subArgs.domain),
          done   |-> TRUE]
    /\ UNCHANGED <<subArgs, netVars, handlerVars, r53Vars, shutdown,
                   factories, regCall, runServer>>

NextSub == ExtractStep

SpecSub == InitSub /\ [][NextSub]_vars

\* C10 (as stated): extractSubdomain(s + "." + d, d) = s for every non-empty
\* prefix s and every domain d, and extractSubdomain(d, d) = "@".
C10_LeftInverseVerbatim ==
    subResult.done =>
        /\ subResult.joined = subArgs.prefix
        /\ subResult.apex = <<"@">>

\* C10 (amended): extractSubdomain(s + "." + d, d) is s lower-cased, hence s
\* itself whenever s holds no upper-case letter; extractSubdomain(d, d) = "@".
C10_LeftInverseLower ==
    subResult.done =>
        /\ subResult.joined = ToLower(subArgs.prefix)
        /\ (\A i \in 1..Len(subArgs.prefix) :
               subArgs.prefix[i] \notin {"A", "B", "W"})
             => subResult.joined = subArgs.prefix
        /\ subResult.apex = <<"@">>

\* C10 witness: a multi-label prefix with a wildcard has been extracted
C10_Witness ==
    /\ subResult.done
    /\ subArgs.prefix = <<"*", ".", "a">>
    /\ subArgs.domain = <<"b", ".", "b">>
    /\ subResult.joined = <<"*", ".", "a">>

(***************************************************************************)
(* The DynDNS protocol handler (DynDNSHandler).  A request is served       *)
(* against an abstract provider whose UpdateRecord succeeds or fails.      *)
(* Paths, hostnames and addresses are sequences of characters.             *)
(***************************************************************************)
\* strings.Contains(s, c) for a one-character c
Contains(s, c) == \E i \in 1..Len(s) : s[i] = c

\* strings.HasPrefix
HasPrefix(s, prefix) ==
    Len(s) >= Len(prefix) /\ SubSeq(s, 1, Len(prefix)) = prefix

\* strings.TrimPrefix
TrimPrefix(s, prefix) ==
    IF HasPrefix(s, prefix) THEN SubSeq(s, Len(prefix) + 1, Len(s)) ELSE s

\* strings.Split(s, sep) for a one-character sep: the parts, empty ones included
RECURSIVE Split(_, _, _, _)
Split(s, sep, i, part) ==
    IF i > Len(s) THEN <<part>>
    ELSE IF s[i] = sep THEN <<part>> \o Split(s, sep, i + 1, <<>>)
    ELSE Split(s, sep, i + 1, Append(part, s[i]))

\* strings.Join(parts, sep)
RECURSIVE Join(_, _)
Join(parts, sep) ==
    IF Len(parts) = 0 THEN <<>>
    ELSE IF Len(parts) = 1 THEN parts[1]
    ELSE parts[1] \o sep \o Join(Tail(parts), sep)

\* strings.TrimSpace, on the blanks of the model's alphabet
RECURSIVE TrimSpace(_)
TrimSpace(s) ==
    IF Len(s) = 0 THEN s
    ELSE IF s[1] = " " THEN TrimSpace(Tail(s))
    ELSE IF s[Len(s)] = " " THEN TrimSpace(SubSeq(s, 1, Len(s) - 1))
    ELSE s

\* strings.ReplaceAll(s, old, new), scanning from position i
RECURSIVE ReplaceAll(_, _, _, _)
ReplaceAll(s, old, new, i) ==
    IF i > Len(s) THEN <<>>
    ELSE IF i + Len(old) - 1 <= Len(s) /\ SubSeq(s, i, i + Len(old) - 1) = old
         THEN new \o ReplaceAll(s, old, new, i + Len(old))
         ELSE <<s[i]>> \o ReplaceAll(s, old, new, i + 1)

\* url.PathUnescape on the escapes of the model's alphabet: "%2a" and "%2A"
\* decode to "*", any other "%" is malformed (the error result is <<"!">>)
RECURSIVE PathUnescape(_, _)
PathUnescape(s, i) ==
    IF i > Len(s) THEN [ok |-> TRUE, value |-> <<>>]
    ELSE IF s[i] = "%"
         THEN IF i + 2 <= Len(s) /\ s[i + 1] = "2" /\ s[i + 2] \in {"a", "A"}
              THEN LET rest == PathUnescape(s, i + 3)
                   IN  [ok |-> rest.ok, value |-> <<"*">> \o rest.value]
              ELSE [ok |-> FALSE, value |-> <<>>]
         ELSE LET rest == PathUnescape(s, i + 1)
              IN  [ok |-> rest.ok, value |-> <<s[i]>> \o rest.value]

\* the last position of ":" in s, 0 if there is none
RECURSIVE LastColon(_, _)
LastColon(s, i) ==
    IF i = 0 THEN 0 ELSE IF s[i] = ":" THEN i ELSE LastColon(s, i - 1)

\* net.SplitHostPort: "host:port" and "[host]:port"; an address without a port
\* or with colons outside brackets is an error
SplitHostPort(s) ==
    LET i == LastColon(s, Len(s))
    IN  IF i = 0 THEN [ok |-> FALSE, host |-> <<>>]
        ELSE IF s[1] = "["
             THEN IF i >= 3 /\ s[i - 1] = "]"
                  THEN [ok |-> TRUE, host |-> SubSeq(s, 2, i - 2)]
                  ELSE [ok |-> FALSE, host |-> <<>>]
             ELSE IF Contains(SubSeq(s, 1, i - 1), ":")
                  THEN [ok |-> FALSE, host |-> <<>>]
                  ELSE [ok |-> TRUE, host |-> SubSeq(s, 1, i - 1)]

\* the address literals of the model
IPv4a == <<"1", ".", "1", ".", "1", ".", "1">>
IPv4b == <<"2", ".", "2", ".", "2", ".", "2">>
IPv6a == <<":", ":", "1">>
\* a string that is no IP literal
Junk == <<"x">>

\* net.ParseIP(ip) != nil, on the strings the model's requests can produce
ParseIP(ip) == ip \in {IPv4a, IPv4b, IPv6a}

\* the path of the standard form
NicUpdate == <<"/", "n", "i", "c", "/", "u", "p", "d", "a", "t", "e">>

\* hostnames a request may name
HostInputs ==
    { <<>>,
      <<"a">>,
      <<"a", ".", "b">>,
      <<"W", ".", "a", ".", "b">>,
      <<"*", ".", "a", ".", "b">>,
      <<"%", "2", "A", ".", "a", ".", "b">>,
      <<"w", ".", "w", ".", "a", ".", "b">>,
      <<"a", "%">>,
      <<"@", ".", "a", ".", "b">>,
      <<".", "a", ".", "b">> }

\* values of the myip query parameter ("" when absent)
MyIPInputs == {<<>>, IPv4a, IPv6a, Junk}

\* values of the X-Forwarded-For header ("" when absent)
ForwardedInputs ==
    { <<>>, IPv4b, <<" ">> \o IPv4b \o <<",">> \o Junk, Junk,
      <<",">> \o IPv4b }

\* values of r.RemoteAddr
RemoteAddrInputs ==
    { IPv4a \o <<":", "8", "0">>, <<"[">> \o IPv6a \o <<"]", ":", "8", "0">>,
      IPv4b, Junk }

\* the requests of the model: standard form with a hostname parameter, or
\* compact form with the hostname as the path
Requests ==
    { [method |-> m, path |-> p, hostname |-> h, myip |-> ip,
       forwarded |-> f, remoteAddr |-> ra] :
        m \in {"GET", "POST"},
        p \in {NicUpdate} \cup {<<"/">> \o x : x \in HostInputs},
        h \in HostInputs, ip \in MyIPInputs,
        f \in ForwardedInputs, ra \in RemoteAddrInputs }

\* the mutant of MethodAllowed: every method is served
MethodAllowedAny(r) == TRUE

\* ServeHTTP: r.Method == http.MethodGet
MethodAllowed(r) == r.method = "GET"

\* strings.HasPrefix(r.URL.Path, "/nic/update")
IsStandardFormat(r) == HasPrefix(r.path, NicUpdate)

\* DynDNSHandler.extractHostname
extractHostname(r) ==
    IF IsStandardFormat(r) THEN r.hostname
    ELSE LET path == TrimPrefix(r.path, <<"/">>)
         IN  IF path # <<>>
             THEN LET decoded == PathUnescape(path, 1)
                  IN  IF decoded.ok THEN decoded.value ELSE path
             ELSE <<>>

\* DynDNSHandler.normalizeHostname
normalizeHostname(hostname) ==
    ToLower(ReplaceAll(ReplaceAll(hostname, <<"%", "2", "a">>, <<"*">>, 1),
                       <<"%", "2", "A">>, <<"*">>, 1))

\* the mutant of splitHostname: a single label is taken as the domain
splitHostnameLoose(hostname) ==
    LET parts == Split(hostname, ".", 1, <<>>)
        n == Len(parts)
    IN  IF n < 2 THEN [domain |-> hostname, subdomain |-> <<"@">>]
        ELSE [domain |-> Join(SubSeq(parts, n - 1, n), <<".">>),
              subdomain |-> IF n > 2 THEN Join(SubSeq(parts, 1, n - 2), <<".">>)
                                     ELSE <<"@">>]

\* DynDNSHandler.splitHostname
splitHostname(hostname) ==
    LET parts == Split(hostname, ".", 1, <<>>)
        n == Len(parts)
    IN  IF n < 2 THEN [domain |-> <<>>, subdomain |-> <<>>]
        ELSE [domain |-> Join(SubSeq(parts, n - 1, n), <<".">>),
              subdomain |-> IF n > 2 THEN Join(SubSeq(parts, 1, n - 2), <<".">>)
                                     ELSE <<"@">>]

\* extractIP's second candidate: the source address without its port, replaced
\* by the first X-Forwarded-For entry when the header is present
FallbackIP(r) ==
    LET split == SplitHostPort(r.remoteAddr)
        source == IF split.ok THEN split.host ELSE r.remoteAddr
    IN  IF r.forwarded # <<>>
        THEN TrimSpace(Split(r.forwarded, ",", 1, <<>>)[1])
        ELSE source

\* the mutant of extractIP: the X-Forwarded-For entry is looked at first
extractIPForwardedFirst(r) ==
    IF r.forwarded # <<>> /\ ParseIP(FallbackIP(r)) THEN FallbackIP(r)
    ELSE IF r.myip # <<>> /\ ParseIP(r.myip) THEN r.myip
    ELSE IF ParseIP(FallbackIP(r)) THEN FallbackIP(r) ELSE <<>>

\* the mutant of extractIP: the fallback candidate is returned without parsing
extractIPUnchecked(r) ==
    IF r.myip # <<>> /\ ParseIP(r.myip) THEN r.myip ELSE FallbackIP(r)

\* DynDNSHandler.extractIP
extractIP(r) ==
    IF r.myip # <<>> /\ ParseIP(r.myip) THEN r.myip
    ELSE IF ParseIP(FallbackIP(r)) THEN FallbackIP(r) ELSE <<>>

\* DynDNSHandler.buildHostname
buildHostname(subdomain, domain) ==
    IF subdomain = <<"@">> \/ subdomain = <<>> THEN domain
    ELSE subdomain \o <<".">> \o domain

\* the mutant of DNSRecordFor: the record type is always A
DNSRecordForAlwaysA(domain, subdomain, ipAddress) ==
    [Name |-> buildHostname(subdomain, domain),
     Type |-> "A",
     Value |-> ipAddress,
     TTL |-> DefaultTTL]

\* DynDNSHandler.updateDNS: the record handed to the provider's UpdateRecord
DNSRecordFor(domain, subdomain, ipAddress) ==
    [Name |-> buildHostname(subdomain, domain),
     Type |-> IF Contains(ipAddress, ":") THEN "AAAA" ELSE "A",
     Value |-> ipAddress,
     TTL |-> DefaultTTL]

\* the mutant of respond: the IP is appended in both forms
respondAlwaysIP(status, ip, standardFormat) ==
    [code |-> 200,
     body |-> IF ip # <<>>
              THEN <<status, " ", ip, "\n">>
              ELSE <<status, "\n">>]

\* DynDNSHandler.respond: the body written
respond(status, ip, standardFormat) ==
    [code |-> 200,
     body |-> IF standardFormat /\ ip # <<>>
              THEN <<status, " ", ip, "\n">>
              ELSE <<status, "\n">>]

\* the mutant of StatusOf: an unchanged-style status on success
StatusOfNochg(failed) == IF failed THEN "911" ELSE "nochg"

\* ServeHTTP: the status rendered after updateDNS returned
StatusOf(failed) == IF failed THEN "911" ELSE "good"

\* a request arrives at the handler
InitHandler ==
    /\ InitClient
    /\ records = <<>>
    /\ active = {}
    /\ subArgs = [prefix |-> <<>>, domain |-> <<>>]
    /\ subResult = [NoResult EXCEPT !.done = TRUE]
    /\ request \in Requests
    /\ hpc = "serve"
    /\ response = NoResponse
    /\ providerCalls = <<>>
    /\ R53Idle
    /\ ShutdownIdle
    /\ RegistryIdle

\* ServeHTTP up to its response or to the provider's UpdateRecord
ServeHTTP ==
    /\ hpc = "serve"
    /\ LET r == request
           std == IsStandardFormat(r)
           hostname == extractHostname(r)
           split == splitHostname(normalizeHostname(hostname))
           ipAddress == extractIP(r)
       IN  IF ~MethodAllowed(r)
           THEN /\ response' = [code |-> 405, body |-> <<"Method not allowed", "\n">>]
                /\ hpc' = "responded"
                /\ UNCHANGED providerCalls
           ELSE IF hostname = <<>> \/ split.domain = <<>>
           THEN /\ response' = respond("notfqdn", <<>>, std)
                /\ hpc' = "responded"
                /\ UNCHANGED providerCalls
           ELSE IF ipAddress = <<>>
           THEN /\ response' = respond("911", <<>>, std)
                /\ hpc' = "responded"
                /\ UNCHANGED providerCalls
           ELSE /\ providerCalls' =
                     Append(providerCalls,
                            [domain |-> split.domain,
                             record |-> DNSRecordFor(split.domain, split.subdomain,
                                                     ipAddress),
                             result |-> "pending"])
                /\ hpc' = "provider"
                /\ UNCHANGED response
    /\ UNCHANGED <<request, netVars, subArgs, subResult, r53Vars, shutdown,
                   factories, regCall, runServer>>

\* the provider's UpdateRecord returns, and ServeHTTP renders the outcome
UpdateDNSReturns ==
    /\ hpc = "provider"
    /\ \E failed \in BOOLEAN :
         /\ providerCalls' =
              [providerCalls EXCEPT ![Len(providerCalls)].result =
                                       IF failed THEN "error" ELSE "ok"]
         /\ response' = respond(StatusOf(failed),
                                providerCalls[Len(providerCalls)].record.Value,
                                IsStandardFormat(request))
    /\ hpc' = "responded"
    /\ UNCHANGED <<request, netVars, subArgs, subResult, r53Vars, shutdown,
                   factories, regCall, runServer>>

NextHandler == ServeHTTP \/ UpdateDNSReturns

SpecHandler == InitHandler /\ [][NextHandler]_vars

(***************************************************************************)
(* Request validation and response rendering (checked under SpecHandler).  *)
(***************************************************************************)
\* the hostname the request names: the hostname parameter in the standard form,
\* the path without its leading slash in the compact form
NamedHostname == IF IsStandardFormat(request) THEN request.hostname
                 ELSE Tail(request.path)

\* a GET request has been handled up to a response or a provider call
Handled == request.method = "GET" /\ hpc \in {"provider", "responded"}

\* the request's hostname passes the handler's validation
HostnameAccepted ==
    /\ extractHostname(request) # <<>>
    /\ splitHostname(normalizeHostname(extractHostname(request))).domain # <<>>

\* the three IP candidates, in the order of precedence; an absent one is ""
IPCandidates ==
    LET split == SplitHostPort(request.remoteAddr)
    IN  << request.myip,
           IF request.forwarded = <<>> THEN <<>>
           ELSE TrimSpace(Split(request.forwarded, ",", 1, <<>>)[1]),
           IF split.ok THEN split.host ELSE request.remoteAddr >>

\* the positions of the candidates that parse as IP literals
ParsingCandidates == {i \in 1..3 : ParseIP(IPCandidates[i])}

\* C16: a GET request without a hostname (standard form without the hostname
\* parameter, compact form with an empty path) or naming a hostname with fewer
\* than two dot-separated labels is answered notfqdn, and no provider call is
\* made.
C16_InvalidHostnameIsNotfqdn ==
    ( /\ request.method = "GET"
      /\ hpc # "serve"
      /\ \/ NamedHostname = <<>>
         \/ ~Contains(extractHostname(request), ".") )
    => /\ hpc = "responded"
       /\ response = [code |-> 200, body |-> <<"notfqdn", "\n">>]
       /\ providerCalls = <<>>

\* C16 witness: a single-label hostname has been answered notfqdn
C16_Witness ==
    /\ hpc = "responded"
    /\ request.method = "GET"
    /\ NamedHostname = <<"a">>
    /\ response.body = <<"notfqdn", "\n">>
    /\ providerCalls = <<>>

\* C17: for a request with an accepted hostname the handler uses the first of
\* (1) myip, (2) the first X-Forwarded-For entry, (3) the source address without
\* its port that parses as an IP literal, and fails only if none of them parses.
C17_FirstParsingCandidateUsed ==
    (Handled /\ HostnameAccepted) =>
        IF ParsingCandidates # {}
        THEN LET first == CHOOSE i \in ParsingCandidates :
                               \A j \in ParsingCandidates : i <= j
             IN  /\ Len(providerCalls) = 1
                 /\ providerCalls[1].record.Value = IPCandidates[first]
        ELSE /\ providerCalls = <<>>
             /\ response.body = <<"911", "\n">>

\* C18: a request with a valid myip parameter and an X-Forwarded-For header
\* naming a different address is processed with the myip value: it is the value
\* of the record given to the provider and the IP of the response.
C18_MyIPBeatsForwarded ==
    ( /\ Handled /\ HostnameAccepted
      /\ ParseIP(request.myip)
      /\ request.forwarded # <<>>
      /\ IPCandidates[2] # request.myip )
    => /\ Len(providerCalls) = 1
       /\ providerCalls[1].record.Value = request.myip
       /\ (hpc = "responded" /\ IsStandardFormat(request)) =>
             /\ Len(response.body) = 4
             /\ response.body[3] = request.myip

\* C18 witness: myip 1.1.1.1 against X-Forwarded-For 2.2.2.2, answered with
\* 1.1.1.1
C18_Witness ==
    /\ hpc = "responded"
    /\ request.method = "GET"
    /\ request.myip = IPv4a
    /\ request.forwarded = IPv4b
    /\ response.body = <<"good", " ", IPv4a, "\n">>

\* C19: when the hostname is accepted but none of the three IP candidates
\* parses, the handler answers 911 without an IP and makes no provider call.
C19_NoIPIs911 ==
    ( /\ request.method = "GET" /\ hpc # "serve"
      /\ HostnameAccepted
      /\ ParsingCandidates = {} )
    => /\ hpc = "responded"
       /\ response = [code |-> 200, body |-> <<"911", "\n">>]
       /\ providerCalls = <<>>

\* C19 witness: a standard-form request whose only candidate is an unparseable
\* source address has been answered 911
C19_Witness ==
    /\ hpc = "responded"
    /\ request.method = "GET"
    /\ IsStandardFormat(request)
    /\ request.hostname = <<"a", ".", "b">>
    /\ request.myip = <<>> /\ request.forwarded = <<>>
    /\ request.remoteAddr = Junk
    /\ response.body = <<"911", "\n">>
    /\ providerCalls = <<>>

NormalizedHostname == normalizeHostname(extractHostname(request))

\* the handler determined an IP for the request: it got past the hostname and
\* one of the candidates it looks at parsed
IPDetermined == HostnameAccepted /\ extractIP(request) # <<>>

\* C21: the shape of the response depends only on the request form and on
\* whether an IP was determined: the standard form gets "<status> <ip>\n" with
\* an IP and "<status>\n" without, the compact form always "<status>\n".
C21_ResponseShape ==
    (request.method = "GET" /\ hpc = "responded") =>
        /\ response.code = 200
        /\ response.body[1] \in {"good", "911", "notfqdn"}
        /\ IF IsStandardFormat(request) /\ IPDetermined
           THEN response.body = <<response.body[1], " ", extractIP(request), "\n">>
           ELSE response.body = <<response.body[1], "\n">>

\* C21 witness: a provider error answered in the standard form, with the IP
C21_Witness ==
    /\ hpc = "responded"
    /\ IsStandardFormat(request)
    /\ response.body = <<"911", " ", IPv6a, "\n">>

\* C22: the record passed to the provider has type AAAA when the accepted IP
\* literal contains ":" and type A otherwise.
C22_RecordTypeFollowsFamily ==
    \A k \in 1..Len(providerCalls) :
        LET rec == providerCalls[k].record
        IN  /\ rec.Value \in {IPv4a, IPv4b, IPv6a}
            /\ rec.Value = IPv6a => rec.Type = "AAAA"
            /\ rec.Value \in {IPv4a, IPv4b} => rec.Type = "A"
            /\ rec.Type = "AAAA" <=> (\E i \in 1..Len(rec.Value) : rec.Value[i] = ":")

\* C22 witness: an IPv6 source address has produced an AAAA record
C22_Witness ==
    /\ Len(providerCalls) = 1
    /\ request.myip = <<>> /\ request.forwarded = <<>>
    /\ providerCalls[1].record.Value = IPv6a
    /\ providerCalls[1].record.Type = "AAAA"

\* C23: for every normalized hostname that splitHostname accepts, the hostname
\* rebuilt by buildHostname from the returned (subdomain, domain) is the
\* normalized hostname; the domain is its last two labels and the subdomain the
\* remaining labels joined by dots, or "@" when none remain.
C23_SplitRejoinRoundTrip ==
    \A k \in 1..Len(providerCalls) :
        LET labels == Split(NormalizedHostname, ".", 1, <<>>)
            n == Len(labels)
        IN  /\ n >= 2
            /\ providerCalls[k].record.Name = NormalizedHostname
            /\ providerCalls[k].domain = labels[n - 1] \o <<".">> \o labels[n]

\* C24: for every hostname the handler accepts, with the handler's split
\* (subdomain s, domain d), the label the netcup provider derives from the
\* record, extractSubdomain(buildHostname(s, d), d), equals s.
C24_HandlerAndNetcupAgreeOnLabel ==
    \A k \in 1..Len(providerCalls) :
        extractSubdomain(providerCalls[k].record.Name, providerCalls[k].domain)
            = splitHostname(NormalizedHostname).subdomain

\* C25: a request whose method is not GET is rejected with 405 before any
\* hostname or IP processing: no DynDNS status line, no provider call.
C25_NonGetRejected ==
    (request.method # "GET" /\ hpc # "serve") =>
        /\ hpc = "responded"
        /\ response.code = 405
        /\ response.body[1] \notin {"good", "nochg", "911", "notfqdn"}
        /\ providerCalls = <<>>

\* C25 witness: a POST naming a valid hostname and IP has been rejected
C25_Witness ==
    /\ hpc = "responded"
    /\ request.method = "POST"
    /\ request.hostname = <<"a", ".", "b">>
    /\ IsStandardFormat(request)
    /\ request.myip = IPv4a
    /\ response.code = 405

(***************************************************************************)
(* The Route53 provider: AwsRoute53Client against a zone directory.        *)
(* Zone ids are sequences of pieces, the "/hostedzone/" prefix being one   *)
(* piece; zoneCache is the set of its <<domain, zone id>> entries.         *)
(***************************************************************************)
\* ensureTrailingDot
ensureTrailingDot(hostname) ==
    IF ~HasSuffix(hostname, <<".">>) THEN hostname \o <<".">> ELSE hostname

\* the domains the calls name: one with a zone, the same with its trailing
\* dot, and one without a zone
R53Domains ==
    {<<"a", ".", "b">>, <<"a", ".", "b", ".">>, <<"c", ".", "d">>}
\* record.Name / hostname arguments: "w.a.b" and the apex "a.b"
R53Names == {<<"w", ".", "a", ".", "b">>, <<"a", ".", "b">>}

\* types.HostedZone (the fields the client reads)
HostedZone(id, name) == [Id |-> id, Name |-> name]
\* the zone of "a.b", the zone of its parent "b", and the zone of "x.a.b"
ZoneAB == HostedZone(<<"/hostedzone/", "Z", "1">>, <<"a", ".", "b", ".">>)
ZoneB == HostedZone(<<"/hostedzone/", "Z", "2">>, <<"b", ".">>)
ZoneXAB == HostedZone(<<"Z", "3">>, <<"x", ".", "a", ".", "b", ".">>)

\* the zone directories of the scenarios, as the pages ListHostedZones returns:
\* page i is truncated exactly if a page i + 1 follows
ZoneDirectories ==
    { << <<ZoneAB>> >>,
      << <<ZoneB, ZoneXAB>>, <<ZoneAB>> >>,
      << <<ZoneB>>, <<ZoneXAB>> >>,
      << <<>> >> }

\* types.ResourceRecordSet of a zone
RRSet(zone, name, type, values, ttl) ==
    [Zone |-> zone, Name |-> name, Type |-> type, Values |-> values, TTL |-> ttl]

\* the record sets the backend may hold when the scenario starts
R53RecordSetStates ==
    LET z == <<"Z", "1">>
        w == <<"w", ".", "a", ".", "b", ".">>
        apex == <<"a", ".", "b", ".">>
        wA1 == RRSet(z, w, "A", <<"1.1.1.1">>, 300)
        wA2 == RRSet(z, w, "A", <<"2.2.2.2">>, 300)
        wAAAA == RRSet(z, w, "AAAA", <<"::1">>, 300)
        apexA1 == RRSet(z, apex, "A", <<"1.1.1.1">>, 300)
    IN  { {}, {wA1}, {wA2}, {wAAAA}, {apexA1, wA1}, {wA2, wAAAA} }

\* zoneID, exists := c.zoneCache[domain]
CacheHas(domain) == \E e \in zoneCache : e[1] = domain
CacheGet(domain) == (CHOOSE e \in zoneCache : e[1] = domain)[2]
\* c.zoneCache[domain] = zoneID
CachePut(domain, zoneID) ==
    {e \in zoneCache : e[1] # domain} \cup {<<domain, zoneID>>}

\* the mutant of ZoneMatches: a zone below the domain matches
ZoneMatchesChild(zone, domainWithDot) == HasSuffix(zone.Name, domainWithDot)

\* the mutant of ZoneMatches: a zone that is a suffix of the domain matches
ZoneMatchesSuffix(zone, domainWithDot) == HasSuffix(domainWithDot, zone.Name)

\* aws.ToString(zone.Name) == domainWithDot
ZoneMatches(zone, domainWithDot) == zone.Name = domainWithDot

\* what ListResourceRecordSets may return for MaxItems 1: the set at the start
\* name and type if the zone has it, else a later set of the zone or none
ListedFrom(zone, fqdn, type) ==
    LET exact == {r \in recordSets :
                     r.Zone = zone /\ r.Name = fqdn /\ r.Type = type}
        later == {r \in recordSets : r.Zone = zone} \ exact
    IN  IF exact # {} THEN {<<r>> : r \in exact}
        ELSE {<<>>} \cup {<<r>> : r \in later}

\* GetRecord on the listing's output: the value found, or "record not found"
RecordOf(output, fqdn, type) ==
    IF Len(output) = 0 THEN [value |-> "", err |-> "record not found"]
    ELSE IF output[1].Name # fqdn \/ output[1].Type # type
    THEN [value |-> "", err |-> "record not found"]
    ELSE [value |-> IF Len(output[1].Values) > 0 THEN output[1].Values[1] ELSE "",
          err |-> ""]

\* the mutant of ChangeInput: the record name is sent as requested
ChangeInputNoDot(c) ==
    [HostedZoneId |-> c.zoneID,
     Changes |-> << [Action |-> "UPSERT", Name |-> c.name, Type |-> c.type,
                     TTL |-> c.ttl, Values |-> <<c.value>>] >>]

\* route53.ChangeResourceRecordSetsInput of UpdateRecord
ChangeInput(c) ==
    [HostedZoneId |-> c.zoneID,
     Changes |-> << [Action |-> "UPSERT", Name |-> ensureTrailingDot(c.name),
                     Type |-> c.type, TTL |-> c.ttl, Values |-> <<c.value>>] >>]

\* the backend applies the UPSERT changes of an input
Upserted(input) ==
    LET ch == input.Changes[1]
    IN  {r \in recordSets : ~(/\ r.Zone = input.HostedZoneId
                              /\ r.Name = ch.Name
                              /\ r.Type = ch.Type)}
        \cup {RRSet(input.HostedZoneId, ch.Name, ch.Type, ch.Values, ch.TTL)}

\* every variable the Route53 actions leave alone, ncalls excepted
notR53Vars ==
    <<sessionID, sessionExpiry, sessionMu, now, pc, call, records, issued,
      active, subArgs, subResult, request, hpc, response, providerCalls,
      shutdown, factories, regCall, runServer>>

\* task t goes on at label with the locals c
R53Goto(t, c, label) ==
    /\ r53call' = [r53call EXCEPT ![t] = c]
    /\ r53pc' = [r53pc EXCEPT ![t] = label]

\* UpdateRecord once its GetRecord has returned: nothing to do, or the change
UpdateAfterGet(t, c) ==
    IF c.getErr = "" /\ c.found = c.value
    THEN R53Goto(t, c, "done")
    ELSE R53Goto(t, [c EXCEPT !.changes = Append(@, ChangeInput(c))],
                 "change_wait")

\* GetRecord returns value or the error e, to its caller or to UpdateRecord
GetReturns(t, c, value, e) ==
    LET got == [c EXCEPT !.found = value, !.getErr = e]
    IN  IF c.kind = "get"
        THEN R53Goto(t, [got EXCEPT !.err = e], "done")
        ELSE UpdateAfterGet(t, got)

\* getHostedZoneID returns id or fails, to UpdateRecord or to GetRecord
ZoneReturns(t, c, id, failed) ==
    IF failed
    THEN IF c.inGet
         THEN GetReturns(t, c, "", "get hosted zone")
         ELSE R53Goto(t, [c EXCEPT !.err = "get hosted zone"], "done")
    ELSE IF c.inGet
         THEN R53Goto(t, [c EXCEPT !.getZone = id], "rr_wait")
         ELSE R53Goto(t, [c EXCEPT !.zoneID = id, !.inGet = TRUE], "zone")

\* AwsRoute53Client.GetRecord is called
R53GetRecord(t) ==
    /\ t \in active
    /\ r53pc[t] = "idle"
    /\ ncalls < MaxCalls
    /\ \E d \in R53Domains, n \in R53Names :
         R53Goto(t, [NoR53Call EXCEPT !.kind = "get", !.domain = d, !.name = n,
                                      !.type = "A", !.inGet = TRUE,
                                      !.cached = CacheHas(d)], "zone")
    /\ ncalls' = ncalls + 1
    /\ UNCHANGED <<zoneCache, recordSets, hostedZones, notR53Vars>>

\* AwsRoute53Client.UpdateRecord is called
R53UpdateRecord(t) ==
    /\ t \in active
    /\ r53pc[t] = "idle"
    /\ ncalls < MaxCalls
    /\ \E d \in R53Domains, n \in R53Names, v \in Values :
         R53Goto(t, [NoR53Call EXCEPT !.kind = "update", !.domain = d,
                                      !.name = n, !.type = "A", !.value = v,
                                      !.ttl = DefaultTTL,
                                      !.cached = CacheHas(d)], "zone")
    /\ ncalls' = ncalls + 1
    /\ UNCHANGED <<zoneCache, recordSets, hostedZones, notR53Vars>>

\* getHostedZoneID: the cache is consulted; on a miss the first page is asked for
getHostedZoneID(t) ==
    /\ r53pc[t] = "zone"
    /\ LET c == r53call[t]
       IN  IF CacheHas(c.domain)
           THEN ZoneReturns(t, c, CacheGet(c.domain), FALSE)
           ELSE R53Goto(t, [c EXCEPT !.page = 1, !.listed = @ + 1], "zone_wait")
    /\ UNCHANGED <<zoneCache, recordSets, hostedZones, ncalls, notR53Vars>>

\* ListHostedZones answers: an error, or a page that getHostedZoneID scans
ListHostedZonesResponse(t) ==
    /\ r53pc[t] = "zone_wait"
    /\ LET c == r53call[t]
           domainWithDot == ensureTrailingDot(c.domain)
           output == hostedZones[c.page]
           hits == {i \in 1..Len(output) : ZoneMatches(output[i], domainWithDot)}
       IN  \E ok \in BOOLEAN :
             IF ~ok
             THEN /\ ZoneReturns(t, [c EXCEPT !.failed = @ \cup {"ListHostedZones"}],
                                 <<>>, TRUE)
                  /\ UNCHANGED zoneCache
             ELSE IF hits # {}
             THEN LET first == CHOOSE i \in hits : \A j \in hits : i <= j
                      zoneID == TrimPrefix(output[first].Id, <<"/hostedzone/">>)
                  IN  /\ zoneCache' = CachePut(c.domain, zoneID)
                      /\ ZoneReturns(t, c, zoneID, FALSE)
             ELSE IF c.page < Len(hostedZones)
             THEN /\ R53Goto(t, [c EXCEPT !.page = @ + 1, !.listed = @ + 1],
                             "zone_wait")
                  /\ UNCHANGED zoneCache
             ELSE /\ ZoneReturns(t, c, <<>>, TRUE)
                  /\ UNCHANGED zoneCache
    /\ UNCHANGED <<recordSets, hostedZones, ncalls, notR53Vars>>

\* ListResourceRecordSets answers GetRecord: an error, or at most one record set
ListResourceRecordSetsResponse(t) ==
    /\ r53pc[t] = "rr_wait"
    /\ LET c == r53call[t]
           fqdn == ensureTrailingDot(c.name)
       IN  \/ GetReturns(t, [c EXCEPT !.failed = @ \cup {"ListResourceRecordSets"}],
                         "", "list record sets")
           \/ \E output \in ListedFrom(c.getZone, fqdn, c.type) :
                LET rec == RecordOf(output, fqdn, c.type)
                IN  GetReturns(t, c, rec.value, rec.err)
    /\ UNCHANGED <<zoneCache, recordSets, hostedZones, ncalls, notR53Vars>>

\* ChangeResourceRecordSets answers UpdateRecord: applied, or an error
ChangeResourceRecordSetsResponse(t) ==
    /\ r53pc[t] = "change_wait"
    /\ LET c == r53call[t]
       IN  \/ /\ recordSets' = Upserted(c.changes[Len(c.changes)])
              /\ R53Goto(t, c, "done")
           \/ /\ UNCHANGED recordSets
              /\ R53Goto(t, [c EXCEPT
                                !.failed = @ \cup {"ChangeResourceRecordSets"},
                                !.err = "change resource record sets"], "done")
    /\ UNCHANGED <<zoneCache, hostedZones, ncalls, notR53Vars>>

\* the call returns to its caller
R53Return(t) ==
    /\ r53pc[t] = "done"
    /\ R53Goto(t, NoR53Call, "idle")
    /\ UNCHANGED <<zoneCache, recordSets, hostedZones, ncalls, notR53Vars>>

\* one caller at a time on a new client, against any of the directories
InitR53 ==
    /\ InitClient
    /\ records = <<>>
    /\ active = {1}
    /\ SubIdle
    /\ ShutdownIdle
    /\ RegistryIdle
    /\ zoneCache = {}
    /\ r53pc = [t \in Tasks |-> "idle"]
    /\ r53call = [t \in Tasks |-> NoR53Call]
    /\ recordSets \in R53RecordSetStates
    /\ hostedZones \in ZoneDirectories

NextR53 ==
    \E t \in Tasks :
        \/ R53GetRecord(t)
        \/ R53UpdateRecord(t)
        \/ getHostedZoneID(t)
        \/ ListHostedZonesResponse(t)
        \/ ListResourceRecordSetsResponse(t)
        \/ ChangeResourceRecordSetsResponse(t)
        \/ R53Return(t)

SpecR53 == InitR53 /\ [][NextR53]_vars

\* the same, every ListHostedZones call being answered (or failing) in the end
SpecR53Fair ==
    SpecR53 /\ \A t \in Tasks : WF_vars(ListHostedZonesResponse(t))

(***************************************************************************)
(* The shared client under concurrent calls.  AwsRoute53Client holds       *)
(* zoneCache, a plain map, and no mutex; a map access takes time, so the   *)
(* read of line 172 and the write of line 196 are each a window with a     *)
(* beginning and an end, and the windows of two tasks may overlap.         *)
(***************************************************************************)
\* the zones of the page task t is waiting for that are named as its domain
PageHits(c) ==
    {i \in 1..Len(hostedZones[c.page]) :
        ZoneMatches(hostedZones[c.page][i], ensureTrailingDot(c.domain))}

\* the id, prefix stripped, of the first zone of the page named as the domain
PageZoneID(c) ==
    LET hits == PageHits(c)
        first == CHOOSE i \in hits : \A j \in hits : i <= j
    IN  TrimPrefix(hostedZones[c.page][first].Id, <<"/hostedzone/">>)

\* the tasks inside a read of the map, and those inside a write
MapReaders == {t \in Tasks : r53pc[t] = "cache_read"}
MapWriters == {t \in Tasks : r53pc[t] = "cache_write"}

\* a write to the map overlaps another task's access to it
MapRace ==
    \E w \in MapWriters : (MapReaders \cup MapWriters) \ {w} # {}

\* getHostedZoneID is entered: the read of c.zoneCache[domain] begins
CacheReadBegins(t) ==
    /\ r53pc[t] = "zone"
    /\ R53Goto(t, r53call[t], "cache_read")
    /\ UNCHANGED <<zoneCache, recordSets, hostedZones, ncalls, notR53Vars>>

\* the read ends: a hit returns the id, a miss asks for the first page
CacheReadEnds(t) ==
    /\ r53pc[t] = "cache_read"
    /\ LET c == r53call[t]
       IN  IF CacheHas(c.domain)
           THEN ZoneReturns(t, c, CacheGet(c.domain), FALSE)
           ELSE R53Goto(t, [c EXCEPT !.page = 1, !.listed = @ + 1], "zone_wait")
    /\ UNCHANGED <<zoneCache, recordSets, hostedZones, ncalls, notR53Vars>>

\* ListHostedZones answers: an error, a page without the zone, or a page with
\* it, and then the write c.zoneCache[domain] = zoneID begins
ListHostedZonesScanned(t) ==
    /\ r53pc[t] = "zone_wait"
    /\ LET c == r53call[t]
       IN  \E ok \in BOOLEAN :
             IF ~ok
             THEN ZoneReturns(t, [c EXCEPT !.failed = @ \cup {"ListHostedZones"}],
                              <<>>, TRUE)
             ELSE IF PageHits(c) # {}
             THEN R53Goto(t, c, "cache_write")
             ELSE IF c.page < Len(hostedZones)
             THEN R53Goto(t, [c EXCEPT !.page = @ + 1, !.listed = @ + 1],
                          "zone_wait")
             ELSE ZoneReturns(t, c, <<>>, TRUE)
    /\ UNCHANGED <<zoneCache, recordSets, hostedZones, ncalls, notR53Vars>>

\* the write ends: the entry is in the map and getHostedZoneID returns the id
CacheWriteEnds(t) ==
    /\ r53pc[t] = "cache_write"
    /\ LET c == r53call[t]
       IN  /\ zoneCache' = CachePut(c.domain, PageZoneID(c))
           /\ ZoneReturns(t, c, PageZoneID(c), FALSE)
    /\ UNCHANGED <<recordSets, hostedZones, ncalls, notR53Vars>>

\* the runtime notices a write overlapping another access of the map and ends
\* the process ("fatal error: concurrent map writes", "concurrent map read and
\* map write"); it need not notice, and then the accesses go on as above
FatalMapAccess ==
    /\ MapRace
    /\ r53pc' = [t \in Tasks |-> "fatal"]
    /\ UNCHANGED <<r53call, zoneCache, recordSets, hostedZones, ncalls,
                   notR53Vars>>

\* every task may call the one client, new, against any of the directories
InitR53Shared ==
    /\ InitClient
    /\ records = <<>>
    /\ active = Tasks
    /\ SubIdle
    /\ ShutdownIdle
    /\ RegistryIdle
    /\ zoneCache = {}
    /\ r53pc = [t \in Tasks |-> "idle"]
    /\ r53call = [t \in Tasks |-> NoR53Call]
    /\ recordSets \in R53RecordSetStates
    /\ hostedZones \in ZoneDirectories

NextR53Shared ==
    \/ \E t \in Tasks :
        \/ R53GetRecord(t)
        \/ R53UpdateRecord(t)
        \/ CacheReadBegins(t)
        \/ CacheReadEnds(t)
        \/ ListHostedZonesScanned(t)
        \/ CacheWriteEnds(t)
        \/ ListResourceRecordSetsResponse(t)
        \/ ChangeResourceRecordSetsResponse(t)
        \/ R53Return(t)
    \/ FatalMapAccess

SpecR53Shared == InitR53Shared /\ [][NextR53Shared]_vars

(***************************************************************************)
(* Claims about the Route53 provider.                                      *)
(***************************************************************************)
\* the zone directory, page after page
RECURSIVE AllZones(_)
AllZones(pages) ==
    IF pages = <<>> THEN <<>> ELSE Head(pages) \o AllZones(Tail(pages))

\* the id, prefix stripped, of the first zone of the directory named d + "."
DirectoryZone(d) ==
    LET zones == AllZones(hostedZones)
        dotted == IF d[Len(d)] = "." THEN d ELSE d \o <<".">>
        hits == {i \in 1..Len(zones) : zones[i].Name = dotted}
        id == zones[CHOOSE i \in hits : \A j \in hits : i <= j].Id
    IN  IF id[1] = "/hostedzone/" THEN Tail(id) ELSE id

\* UpdateRecord's zone lookup and record listing were both answered
Answered(c) ==
    /\ c.kind = "update"
    /\ c.failed \cap {"ListHostedZones", "ListResourceRecordSets"} = {}
    /\ c.zoneID # <<>>

\* the backend holds a record set at the call's name and type, in the zone of
\* its domain, whose value is the desired one
HasDesired(c) ==
    \E r \in recordSets :
        /\ r.Zone = DirectoryZone(c.domain)
        /\ r.Name = c.name \o <<".">>
        /\ r.Type = c.type
        /\ r.Values = <<c.value>>

\* C26: a Route53 UpdateRecord whose lookups are answered makes no
\* ChangeResourceRecordSets call and returns success if the backend holds a
\* record set at the target name and type with the desired value; otherwise it
\* makes exactly one such call, in the zone looked up for the domain, whose
\* single change is an UPSERT of the requested name with a trailing dot, the
\* requested type, the requested value alone and the requested TTL.
C26_NoOpOrOneUpsert ==
    \A t \in Tasks :
        LET c == r53call[t]
        IN  Answered(c) =>
              /\ r53pc[t] = "change_wait" =>
                   /\ ~HasDesired(c)
                   /\ c.changes =
                        << [HostedZoneId |-> DirectoryZone(c.domain),
                            Changes |-> << [Action |-> "UPSERT",
                                            Name |-> c.name \o <<".">>,
                                            Type |-> c.type,
                                            TTL |-> c.ttl,
                                            Values |-> <<c.value>>] >>] >>
              /\ r53pc[t] = "done" =>
                   /\ Len(c.changes) <= 1
                   /\ c.changes = <<>> => HasDesired(c) /\ c.err = ""

\* C26 witness: an answered update has returned success without a change,
\* because an earlier update's single UPSERT wrote the desired value
C26_Witness ==
    /\ r53pc[1] = "done"
    /\ Answered(r53call[1])
    /\ r53call[1].changes = <<>>
    /\ r53call[1].err = ""
    /\ HasDesired(r53call[1])
    /\ \E r \in recordSets :
          /\ r.Name = r53call[1].name \o <<".">>
          /\ r.Type = r53call[1].type
          /\ r.TTL = DefaultTTL

\* an entry of the cache names a domain and the stripped id of a zone of the
\* directory whose name is exactly that domain with its trailing dot
ExactMatchEntry(e) ==
    \E p \in 1..Len(hostedZones) : \E i \in 1..Len(hostedZones[p]) :
        LET zone == hostedZones[p][i]
        IN  /\ zone.Name = (IF e[1][Len(e[1])] = "." THEN e[1] ELSE e[1] \o <<".">>)
            /\ e[2] = (IF zone.Id[1] = "/hostedzone/" THEN Tail(zone.Id) ELSE zone.Id)

\* task t's zone lookup ends in an error in this step
LookupFails(t) ==
    /\ r53pc[t] = "zone_wait"
    /\ r53pc'[t] # "zone_wait"
    /\ \/ r53call'[t].err = "get hosted zone"
       \/ r53call'[t].getErr = "get hosted zone"

\* C27: the zone cache holds only entries made by an exact-name match of a zone
\* of the directory, one per domain; an entry is never removed or changed; a
\* lookup that fails or finds no zone adds nothing; and a call on a domain that
\* was cached when the call began never calls ListHostedZones.
C27_ZoneCacheInvariant ==
    /\ [](/\ \A e \in zoneCache : ExactMatchEntry(e)
          /\ \A e1, e2 \in zoneCache : e1[1] = e2[1] => e1 = e2
          /\ \A t \in Tasks : r53call[t].cached => r53call[t].listed = 0)
    /\ [][zoneCache \subseteq zoneCache']_vars
    /\ [][\A t \in Tasks : LookupFails(t) => zoneCache' = zoneCache]_vars

\* C27 witness: a second call on a cached domain has returned without having
\* called ListHostedZones
C27_Witness ==
    /\ r53pc[1] = "done"
    /\ r53call[1].cached
    /\ r53call[1].listed = 0
    /\ r53call[1].err = ""
    /\ \E e \in zoneCache : e[1] = r53call[1].domain

\* C28 (as stated, for the Route53 provider): an UpdateRecord on whose behalf a
\* backend call failed (zone lookup, record listing or record mutation) returns
\* an error.
C28_FailedBackendCallSurfaces ==
    \A t \in Tasks :
        (/\ r53call[t].kind = "update"
         /\ r53pc[t] = "done"
         /\ r53call[t].failed # {}) => r53call[t].err # ""

(***************************************************************************)
(* RunServer from the stop signal on.  shutdown.elapsed is the age of       *)
(* shutdownCtx, shutdown.conns the time the requests in flight still need   *)
(* (0: every connection is idle), shutdown.atStop that time when the stop   *)
(* signal arrived.                                                          *)
(***************************************************************************)
\* every variable the shutdown actions leave alone
notShutdownVars ==
    <<sessionID, sessionExpiry, sessionMu, now, pc, call, records, issued,
      ncalls, active, subArgs, subResult, request, hpc, response,
      providerCalls, zoneCache, r53pc, r53call, recordSets, hostedZones,
      factories, regCall, runServer>>

\* the server is serving and waits for the stop signal
InitShutdown ==
    /\ InitClient
    /\ records = <<>>
    /\ active = {}
    /\ SubIdle
    /\ R53Idle
    /\ RegistryIdle
    /\ shutdown = [NoShutdown EXCEPT !.pc = "serving"]

\* a request arrives while the listeners are open
RequestArrives ==
    /\ shutdown.pc \in {"serving", "closing", "shutdown"}
    /\ \E work \in 1..MaxWork :
         /\ work > shutdown.conns
         /\ shutdown' = [shutdown EXCEPT !.conns = work]
    /\ UNCHANGED notShutdownVars

\* the mutant of StopSignal: server.Shutdown is called without p.Close
StopSignalNoClose ==
    /\ shutdown.pc = "serving"
    /\ shutdown' = [shutdown EXCEPT !.pc = "shutdown", !.elapsed = 0,
                                    !.atStop = shutdown.conns]
    /\ UNCHANGED notShutdownVars

\* <-stop, and shutdownCtx is created; p.Close(shutdownCtx) is called
StopSignal ==
    /\ shutdown.pc = "serving"
    /\ shutdown' = [shutdown EXCEPT !.pc = "closing", !.elapsed = 0,
                                    !.atStop = shutdown.conns,
                                    !.closes = @ + 1]
    /\ UNCHANGED notShutdownVars

\* time passes: the requests in flight proceed and shutdownCtx ages
ShutdownTick ==
    /\ \/ shutdown.pc = "serving" /\ shutdown.conns > 0
       \/ /\ shutdown.pc \in {"closing", "shutdown", "draining"}
          /\ shutdown.elapsed < ShutdownTimeout
    /\ shutdown' =
         [shutdown EXCEPT
            !.conns = IF @ > 0 THEN @ - 1 ELSE 0,
            !.elapsed = IF shutdown.pc = "serving" THEN @ ELSE @ + 1]
    /\ UNCHANGED notShutdownVars

\* p.Close(shutdownCtx) returns, at the latest when shutdownCtx expires; an
\* error is logged
ProviderCloseReturns ==
    /\ shutdown.pc = "closing"
    /\ \E failed \in BOOLEAN :
         shutdown' = [shutdown EXCEPT !.pc = "shutdown", !.closeErr = failed]
    /\ UNCHANGED notShutdownVars

\* server.Shutdown(shutdownCtx) is called: the listeners are closed
ServerShutdown ==
    /\ shutdown.pc = "shutdown"
    /\ shutdown' = [shutdown EXCEPT !.pc = "draining", !.stopped = TRUE]
    /\ UNCHANGED notShutdownVars

\* server.Shutdown returns nil once every connection is idle, and the error of
\* shutdownCtx if it has expired before that; RunServer returns
ServerShutdownReturns ==
    /\ shutdown.pc = "draining"
    /\ \/ /\ shutdown.conns = 0
          /\ shutdown' = [shutdown EXCEPT !.pc = "returned", !.result = "nil"]
       \/ /\ shutdown.conns > 0
          /\ shutdown.elapsed >= ShutdownTimeout
          /\ shutdown' = [shutdown EXCEPT !.pc = "returned",
                                          !.result = "server shutdown failed"]
    /\ UNCHANGED notShutdownVars

NextShutdown ==
    \/ RequestArrives
    \/ StopSignal
    \/ ShutdownTick
    \/ ProviderCloseReturns
    \/ ServerShutdown
    \/ ServerShutdownReturns

SpecShutdown == InitShutdown /\ [][NextShutdown]_vars

\* the same, with time passing and every call of the sequence returning: Close
\* returns by the deadline of shutdownCtx, which its requests carry, and
\* server.Shutdown returns once the connections are idle or the context is done
SpecShutdownFair ==
    /\ SpecShutdown
    /\ WF_vars(ShutdownTick)
    /\ WF_vars(ProviderCloseReturns)
    /\ WF_vars(ServerShutdown)
    /\ WF_vars(ServerShutdownReturns)

\* C30 (as stated): whatever Close returns and however long it runs, RunServer
\* goes on to stop the server, and it returns an error only if the requests in
\* flight when the stop signal arrived could not have finished within the
\* shutdown timeout, that is never because of Close.
C30_CloseNeverFailsShutdown ==
    /\ shutdown.pc = "returned" => shutdown.stopped
    /\ shutdown.result = "server shutdown failed" =>
          shutdown.atStop > ShutdownTimeout

(***************************************************************************)
(* The provider registry and the start of RunServer.                       *)
(***************************************************************************)
\* the provider names of the scenario: the two the packages register in their
\* init functions, and one more
ProviderNames == {"netcup_ccp", "aws_route53", "other"}
\* the constructors that are registered
FactoryFuncs == {"NewNetcupProvider", "NewRoute53Provider"}

\* the mutant of GetFactory: an unknown name yields the default provider's factory
GetFactoryWithDefault(name) ==
    IF \E e \in factories : e[1] = name
    THEN [factory |-> (CHOOSE e \in factories : e[1] = name)[2], ok |-> TRUE]
    ELSE [factory |-> "NewNetcupProvider", ok |-> TRUE]

\* GetFactory: factory, ok := factories[name]
GetFactory(name) ==
    IF \E e \in factories : e[1] = name
    THEN [factory |-> (CHOOSE e \in factories : e[1] = name)[2], ok |-> TRUE]
    ELSE [factory |-> "", ok |-> FALSE]

\* every variable the registry actions leave alone
notRegistryVars ==
    <<sessionID, sessionExpiry, sessionMu, now, pc, call, records, issued,
      ncalls, active, subArgs, subResult, request, hpc, response,
      providerCalls, zoneCache, r53pc, r53call, recordSets, hostedZones,
      shutdown>>

\* the packages' init functions have not run yet; RunServer is to be called
InitRegistry ==
    /\ InitClient
    /\ records = <<>>
    /\ active = {}
    /\ SubIdle
    /\ R53Idle
    /\ ShutdownIdle
    /\ factories = {}
    /\ regCall = NoRegCall
    /\ runServer = [NoRunServer EXCEPT !.pc = "init"]

\* RegisterFactory(name, factory), before RunServer is called
RegisterFactory ==
    /\ runServer.pc = "init"
    /\ \E name \in ProviderNames, factory \in FactoryFuncs :
         IF \E e \in factories : e[1] = name
         THEN /\ regCall' = [name |-> name, factory |-> factory, panicked |-> TRUE]
              /\ UNCHANGED factories
         ELSE /\ regCall' = [name |-> name, factory |-> factory, panicked |-> FALSE]
              /\ factories' = factories \cup {<<name, factory>>}
    /\ UNCHANGED <<runServer, notRegistryVars>>

\* RunServer: provider.GetFactory(config.Provider)
RunServerGetFactory ==
    /\ runServer.pc = "init"
    /\ \E name \in ProviderNames :
         LET got == GetFactory(name)
         IN  IF ~got.ok
             THEN runServer' = [runServer EXCEPT
                                  !.pc = "returned", !.provider = name,
                                  !.result = "provider factory not found"]
             ELSE runServer' = [runServer EXCEPT
                                  !.pc = "construct", !.provider = name,
                                  !.factory = got.factory]
    /\ UNCHANGED <<factories, regCall, notRegistryVars>>

\* RunServer: prov(context.Background(), nil), then the server is started
RunServerConstruct ==
    /\ runServer.pc = "construct"
    /\ \E ok \in BOOLEAN :
         IF ok
         THEN runServer' = [runServer EXCEPT !.pc = "serving",
                                             !.constructed = TRUE,
                                             !.started = TRUE]
         ELSE runServer' = [runServer EXCEPT
                              !.pc = "returned",
                              !.result = "failed to create provider"]
    /\ UNCHANGED <<factories, regCall, notRegistryVars>>

NextRegistry ==
    \/ RegisterFactory
    \/ RunServerGetFactory
    \/ RunServerConstruct

SpecRegistry == InitRegistry /\ [][NextRegistry]_vars

\* the names that have an entry in the registry
RegisteredNames == {e[1] : e \in factories}

\* C34: a RunServer whose provider name has no entry in the registry returns
\* "provider factory not found" with no provider constructed and no server
\* started, and only then; the registry gains an entry only by the
\* RegisterFactory call of a name not yet registered; a RegisterFactory call of
\* a registered name panics and leaves the registry as it was.
C34_UnregisteredProviderFails ==
    /\ [](/\ (runServer.pc # "init" /\ runServer.provider \notin RegisteredNames) =>
                /\ runServer.pc = "returned"
                /\ runServer.result = "provider factory not found"
                /\ ~runServer.constructed
                /\ ~runServer.started
          /\ runServer.result = "provider factory not found" =>
                runServer.provider \notin RegisteredNames
          /\ \A e1, e2 \in factories : e1[1] = e2[1] => e1 = e2)
    /\ [][/\ regCall'.panicked =>
               (regCall'.name \in RegisteredNames /\ factories' = factories)
          /\ (regCall' # regCall /\ ~regCall'.panicked) =>
               /\ regCall'.name \notin RegisteredNames
               /\ factories' = factories \cup {<<regCall'.name, regCall'.factory>>}
          /\ factories' # factories => regCall' # regCall]_vars

\* C34 witness: after a second registration of a name has panicked, RunServer
\* was called for a name never registered and has returned the error
C34_Witness ==
    /\ regCall.panicked
    /\ factories # {}
    /\ runServer.pc = "returned"
    /\ runServer.result = "provider factory not found"
    /\ runServer.provider \notin RegisteredNames

\* C35: after the stop signal p.Close has been invoked exactly once, while the
\* server still accepts requests and within the deadline of shutdownCtx;
\* server.Shutdown is called only after Close has returned; and the sequence
\* always reaches server.Shutdown and returns.
C35_ShutdownOrdering ==
    /\ [](/\ shutdown.pc = "closing" =>
                /\ shutdown.closes = 1
                /\ ~shutdown.stopped
                /\ shutdown.elapsed <= ShutdownTimeout
          /\ shutdown.pc \in {"shutdown", "draining", "returned"} =>
                shutdown.closes = 1
          /\ shutdown.stopped => shutdown.pc \in {"draining", "returned"}
          /\ shutdown.pc = "serving" => shutdown.closes = 0)
    /\ (shutdown.pc = "closing" ~> shutdown.stopped)
    /\ (shutdown.pc = "closing" ~> shutdown.pc = "returned")

\* C35 witness: RunServer has returned after one Close, which failed, and after
\* server.Shutdown
C35_Witness ==
    /\ shutdown.pc = "returned"
    /\ shutdown.closes = 1
    /\ shutdown.closeErr
    /\ shutdown.stopped

\* the directory has a zone named d with a trailing dot
HasZone(d) ==
    \E i \in 1..Len(AllZones(hostedZones)) :
        AllZones(hostedZones)[i].Name = (IF d[Len(d)] = "." THEN d ELSE d \o <<".">>)

\* task t's call is past its (first) zone lookup, every ListHostedZones call of
\* which was answered
LookedUp(t) ==
    /\ r53call[t].kind # "none"
    /\ "ListHostedZones" \notin r53call[t].failed
    /\ \/ r53pc[t] \in {"rr_wait", "change_wait", "done"}
       \/ r53call[t].zoneID # <<>>

\* the zone id task t's lookup returned (<<>>: none)
LookupResult(t) ==
    IF r53call[t].kind = "update" THEN r53call[t].zoneID ELSE r53call[t].getZone

\* C38: a zone lookup asks for each page of the directory at most once, in
\* order; if the directory has a zone whose name is the domain with a trailing
\* dot, on whichever page, the lookup returns the id of the first such zone
\* with the "/hostedzone/" prefix stripped, and never that of another zone; if
\* it has none, the lookup ends in an error; and a lookup waiting for a page
\* always gets on.
C38_ZoneLookupScansPages ==
    /\ [](\A t \in Tasks :
            /\ r53call[t].listed <= Len(hostedZones)
            /\ r53call[t].page <= Len(hostedZones)
            /\ r53call[t].page = r53call[t].listed
            /\ LookedUp(t) =>
                 IF HasZone(r53call[t].domain)
                 THEN /\ LookupResult(t) = DirectoryZone(r53call[t].domain)
                      /\ r53call[t].err # "get hosted zone"
                      /\ r53call[t].getErr # "get hosted zone"
                 ELSE /\ LookupResult(t) = <<>>
                      /\ r53pc[t] = "done"
                      /\ r53call[t].err = "get hosted zone"
                      /\ r53call[t].changes = <<>>)
    /\ \A t \in Tasks :
         (r53pc[t] = "zone_wait") ~> (r53pc[t] # "zone_wait")

\* C38 witness: a lookup has found the zone of a.b on the second page, behind
\* the zones of b and of x.a.b
C38_Witness ==
    /\ r53pc[1] = "done"
    /\ r53call[1].listed = 2
    /\ hostedZones[1] = <<ZoneB, ZoneXAB>>
    /\ LookupResult(1) = <<"Z", "1">>
    /\ r53call[1].err = ""

(***************************************************************************)
(* The zone cache under concurrent calls (checked under SpecR53Shared).    *)
(***************************************************************************)
\* C40: no task writes the zoneCache map while another task reads or writes it.
C40_ZoneCacheAccessExclusive ==
    \A w \in Tasks :
        r53pc[w] = "cache_write" =>
            \A t \in Tasks \ {w} : r53pc[t] \notin {"cache_read", "cache_write"}

====
